---- MODULE Spec2Model ----
(***************************************************************************)
(* A model of phantom_generator: configuration validation                  *)
(* (mx_us_phantom/config_validation.py), the bound checks of the region    *)
(* classes (mx_us_phantom/structures.py) and the run of the tool           *)
(* (generate_phantom.py: main, parse_config, gen_phantom) together with    *)
(* the dispatch of mx_us_phantom/phantom.py; Point.in_polygon and the      *)
(* fills of the region classes on the grids of one slice;                  *)
(* Phantom.generate_scatterers step by step; and the loop of gen_phantom   *)
(* over the slices with the arrays that save_all and mat_2d_to_3d write.   *)
(*                                                                         *)
(* A Python error string is modelled as the sequence of the messages that  *)
(* were concatenated into it, in order: "" is <<>>, `a + b` is a \o b and  *)
(* `"text" in s` is membership of the message in the sequence.  A message  *)
(* is a pair <<text, arg>>; arg is the value spliced into the text ("" if  *)
(* none).                                                                  *)
(***************************************************************************)
EXTENDS Integers, Sequences, FiniteSets, TLC

VARIABLES
    pc,             \* position of the run inside main()
    configuration,  \* the parsed json configuration (a dict: a record)
    args,           \* the parsed command line: [format, verbosity]
    error_msg,      \* the report returned by validate_configuration
    exception,      \* the exception that ended the run, or NoException
    warnings,       \* messages emitted with warnings.warn_explicit
    slice_z,        \* loop variable of gen_phantom
    generated,      \* slices whose generate_phantom_matrix completed
    fills,          \* region fills performed so far: <<region type, slice>>
    files,          \* names of the files persisted so far
    call,           \* unit specification: the function applied and its inputs
    ret,            \* unit specification: the value it returned
    phantom,        \* Phantom.phantom: the field, phantom[x][y]
    sound_speed_map,  \* Phantom.sound_speed_map[x][y]
    density_map,    \* Phantom.density_map[x][y], in thirds of a kg/m^3
    writes,         \* the calls of fill_structure so far: <<pos_x, pos_y, scat_gain>>
    region_i,       \* generate_phantom_matrix: the index of the next region of its loop
    scatter,        \* generate_scatterers: its locals [k, x, y, scatterers, i]
    disk            \* the arrays held by the .mat files persisted so far

vars == <<pc, configuration, args, error_msg, exception, warnings, slice_z,
          generated, fills, files, call, ret,
          phantom, sound_speed_map, density_map, writes, region_i, scatter, disk>>

\* the grids of a slice and the position of the loop that fills them
grid_vars == <<phantom, sound_speed_map, density_map, writes, region_i>>

\* the locals of generate_scatterers and the contents of the .mat files
io_vars == <<scatter, disk>>

(***************************************************************************)
(* Bounds of the model.                                                    *)
(***************************************************************************)
Rows == 5
Cols == 4
MaxDepth == 4
MaxRegions == 2
MaxCoord == 3
MaxPoints == 2
MaxPercOver == 2
MaxVertex == 2
MaxRadius == 2
MaxSample == 2
MaxScatterers == 3

Range(s) == {s[i] : i \in 1..Len(s)}

Msg(text, arg) == <<text, arg>>

\* str.lower() on the strings that occur in the model
Lower(s) ==
    CASE s = "Gaussian" -> "gaussian"
      [] s = "UNIFORM" -> "uniform"
      [] s = "K_Wave" -> "k_wave"
      [] s = "Effec_Scatterers" -> "effec_scatterers"
      [] s = "Rectangle" -> "rectangle"
      [] s = "SPHERE" -> "sphere"
      [] s = "ON" -> "on"
      [] OTHER -> s

(***************************************************************************)
(* structures.py: bound checks                                             *)
(***************************************************************************)
PointsOutOfBoundsMsg == Msg("The defined points are out of bounds of the phantom.", "")
CircleRadiusMsg == Msg("Circle radius must be greater than zero", "")
CircleOutOfBoundsMsg == Msg("The defined circle is out of bounds of the phantom.", "")
RectangleDimensionsMsg == Msg("Rectangle dimensions must be greater than zero", "")
RectangleOutOfBoundsMsg == Msg("The defined rectangle is out of bounds of the phantom.", "")
SphereRadiusMsg == Msg("Sphere radius must be greater than zero", "")
SphereOutOfBoundsMsg == Msg("The defined sphere is out of bounds of the phantom.", "")

\* Point.__init__: p[0] is x, p[1] is y, p[2] (when present) is z
PointX(p) == p[1]
PointY(p) == p[2]
PointZ(p) == p[3]

\* Structure.validate with the column and row extents exchanged
Structure_validate_swapped(origins, num_of_rows, num_of_cols) ==
    IF \E i \in 1..Len(origins) :
          \/ PointX(origins[i]) < 0 \/ PointX(origins[i]) > num_of_rows - 1
          \/ PointY(origins[i]) < 0 \/ PointY(origins[i]) > num_of_cols - 1
    THEN <<PointsOutOfBoundsMsg>>
    ELSE <<>>

\* Structure.validate (inherited by Polygon and SinglePoint); x: cols, y: rows
Structure_validate(origins, num_of_rows, num_of_cols) ==
    IF \E i \in 1..Len(origins) :
          \/ PointX(origins[i]) < 0 \/ PointX(origins[i]) > num_of_cols - 1
          \/ PointY(origins[i]) < 0 \/ PointY(origins[i]) > num_of_rows - 1
    THEN <<PointsOutOfBoundsMsg>>
    ELSE <<>>

\* Circle.validate with the far bound taken as the extent itself
Circle_validate_touching(center, radius, num_of_rows, num_of_cols) ==
    IF radius <= 0
    THEN <<CircleRadiusMsg>>
    ELSE IF \/ PointY(center) + radius > num_of_rows
            \/ PointX(center) + radius > num_of_cols
            \/ PointX(center) - radius < 0
            \/ PointY(center) - radius < 0
         THEN <<CircleOutOfBoundsMsg>>
         ELSE <<>>

\* Circle.validate that checks the far bounds only
Circle_validate_far_only(center, radius, num_of_rows, num_of_cols) ==
    IF radius <= 0
    THEN <<CircleRadiusMsg>>
    ELSE IF \/ PointY(center) + radius > num_of_rows - 1
            \/ PointX(center) + radius > num_of_cols - 1
         THEN <<CircleOutOfBoundsMsg>>
         ELSE <<>>

\* Circle.validate
Circle_validate(center, radius, num_of_rows, num_of_cols) ==
    IF radius <= 0
    THEN <<CircleRadiusMsg>>
    ELSE IF \/ PointY(center) + radius > num_of_rows - 1
            \/ PointX(center) + radius > num_of_cols - 1
            \/ PointX(center) - radius < 0
            \/ PointY(center) - radius < 0
         THEN <<CircleOutOfBoundsMsg>>
         ELSE <<>>

\* Rectangle.validate that lets a zero length pass
Rectangle_validate_zero(top_left_corner, horizontal_length, vertical_length, num_of_rows, num_of_cols) ==
    IF horizontal_length < 0 \/ vertical_length < 0
    THEN <<RectangleDimensionsMsg>>
    ELSE IF \/ PointY(top_left_corner) + vertical_length > num_of_rows - 1
            \/ PointX(top_left_corner) + horizontal_length > num_of_cols - 1
            \/ PointX(top_left_corner) < 0
            \/ PointY(top_left_corner) < 0
         THEN <<RectangleOutOfBoundsMsg>>
         ELSE <<>>

\* Rectangle.validate
Rectangle_validate(top_left_corner, horizontal_length, vertical_length, num_of_rows, num_of_cols) ==
    IF horizontal_length <= 0 \/ vertical_length <= 0
    THEN <<RectangleDimensionsMsg>>
    ELSE IF \/ PointY(top_left_corner) + vertical_length > num_of_rows - 1
            \/ PointX(top_left_corner) + horizontal_length > num_of_cols - 1
            \/ PointX(top_left_corner) < 0
            \/ PointY(top_left_corner) < 0
         THEN <<RectangleOutOfBoundsMsg>>
         ELSE <<>>

\* Sphere.validate
Sphere_validate(center, radius, num_of_rows, num_of_cols, num_of_z) ==
    IF radius <= 0
    THEN <<SphereRadiusMsg>>
    ELSE IF \/ PointY(center) + radius > num_of_rows - 1
            \/ PointX(center) + radius > num_of_cols - 1
            \/ PointZ(center) + radius > num_of_z - 1
            \/ PointX(center) < radius
            \/ PointY(center) < radius
            \/ PointZ(center) < radius
         THEN <<SphereOutOfBoundsMsg>>
         ELSE <<>>

\* Point.in_polygon, line 57, with a point on the edge counted as left of it
RightOfPoint_or_on(x, y, pi, pj) ==
    LET d == PointY(pj) - PointY(pi)
        n == (PointX(pj) - PointX(pi)) * (y - PointY(pi))
    IN  IF d > 0 THEN (x - PointX(pi)) * d <= n
        ELSE (x - PointX(pi)) * d >= n

\* Point.in_polygon, line 57: x < (xj - xi)*(y - yi)/(yj - yi) + xi, evaluated
\* only when yj # yi (the `and` of line 56 short-circuits); the true division
\* is exact on the integers of the model, so both sides are multiplied by
\* yj - yi
RightOfPoint(x, y, pi, pj) ==
    LET d == PointY(pj) - PointY(pi)
        n == (PointX(pj) - PointX(pi)) * (y - PointY(pi))
    IN  IF d > 0 THEN (x - PointX(pi)) * d < n
        ELSE (x - PointX(pi)) * d > n

\* Point.in_polygon, lines 56 and 57: the condition under which the edge from
\* polygon[j] to polygon[i] toggles is_inside
Toggles(point, polygon, i, j) ==
    /\ (PointY(polygon[i]) > PointY(point)) # (PointY(polygon[j]) > PointY(point))
    /\ RightOfPoint(PointX(point), PointY(point), polygon[i], polygon[j])

RECURSIVE in_polygon_from(_, _, _, _, _)
\* Point.in_polygon: its loop from index i on, j the index before i
in_polygon_from(point, polygon, i, j, is_inside) ==
    IF i > Len(polygon)
    THEN is_inside
    ELSE in_polygon_from(point, polygon, i + 1, i,
                         IF Toggles(point, polygon, i, j) THEN ~is_inside ELSE is_inside)

\* Point.in_polygon without the edge from the last vertex to the first
in_polygon_open(point, polygon) ==
    in_polygon_from(point, polygon, 2, 1, FALSE)

\* Point.in_polygon: j starts at the last vertex
in_polygon(point, polygon) ==
    in_polygon_from(point, polygon, 1, Len(polygon), FALSE)

(***************************************************************************)
(* config_validation.py                                                    *)
(***************************************************************************)
NoException == [kind |-> "none", msgs |-> <<>>]

Has(config, key) == key \in DOMAIN config

\* dict.get(key, default)
Get(config, key, default) == IF Has(config, key) THEN config[key] ELSE default

MissingHeaderMsg == Msg("One of more parameters is missing in the config file.", "")
MissingMsg(key) == Msg("Parameter is missing.", key)
DistributionMsg(distribution) == Msg("The distribution is not supported. Supported distributions are: uniform gaussian rayleigh.", distribution)
PercMsg == Msg("Percentage of scatterers should be > 0 and < 100 %", "")
PercWarning == Msg("Percentage of scatterers is set to 100 %. Please check your config.", "")
GainMsg(structure_type) == Msg("Structure : relative amplitude of the scatterers should be >= 0", structure_type)
FormatMsg(phantom_format) == Msg("The format is not supported. Supported formats are: effec_scatterers k_wave.", phantom_format)
UnsupportedStructureMsg(region_type) == Msg("The structure of type is not supported.", region_type)
SupportedStructuresMsg == Msg("Supported structures are: circle rectangle free_polygon points sphere", "")
Only2DMsg == Msg("effec_scatterers only supports 2-D phantoms", "")
ImageFormatMsg == Msg("Using image as input is supported only with effec_scatterers format", "")

\* the message of a key when it is absent
MissingIfAbsent(config, key) ==
    IF Has(config, key) THEN <<>> ELSE <<MissingMsg(key)>>

\* check_parameters_are_present that raises on the first absent key only
check_parameters_first_only(config, is_image) ==
    LET all == (IF ~is_image
                THEN MissingIfAbsent(config, "rows_y")
                     \o MissingIfAbsent(config, "cols_x")
                ELSE <<>>)
               \o MissingIfAbsent(config, "distribution")
               \o MissingIfAbsent(config, "perc_of_scatterers")
               \o MissingIfAbsent(config, "phantom_format")
    IN  IF all = <<>> THEN <<>> ELSE <<all[1]>>

\* check_parameters_are_present: the messages of the exception it raises,
\* <<>> when it returns without raising
check_parameters_are_present(config, is_image) ==
    (IF ~is_image
     THEN MissingIfAbsent(config, "rows_y")
          \o MissingIfAbsent(config, "cols_x")
     ELSE <<>>)
    \o MissingIfAbsent(config, "distribution")
    \o MissingIfAbsent(config, "perc_of_scatterers")
    \o (IF ~Has(config, "phantom_format")
        THEN <<MissingMsg("phantom_format")>>
        ELSE IF config["phantom_format"] = "k_wave"
             THEN MissingIfAbsent(config, "sound_speed_c0_m_per_s")
                  \o MissingIfAbsent(config, "density_rho0_kg_per_m3")
             ELSE <<>>)

\* validate_distribution: supported_distributions
supported_distributions == {"uniform", "gaussian", "rayleigh"}

validate_distribution(distribution) ==
    IF distribution \notin supported_distributions
    THEN <<DistributionMsg(distribution)>>
    ELSE <<>>

\* validate_perc_of_scat that rejects 100
validate_perc_of_scat_strict(perc_of_scatterers) ==
    IF perc_of_scatterers <= 0 \/ perc_of_scatterers >= 100
    THEN [error_msg |-> <<PercMsg>>, warned |-> {}]
    ELSE [error_msg |-> <<>>, warned |-> {}]

\* validate_perc_of_scat: the error string and the warnings it emits
validate_perc_of_scat(perc_of_scatterers) ==
    IF perc_of_scatterers <= 0 \/ perc_of_scatterers > 100
    THEN [error_msg |-> <<PercMsg>>, warned |-> {}]
    ELSE IF perc_of_scatterers = 100
         THEN [error_msg |-> <<>>, warned |-> {PercWarning}]
         ELSE [error_msg |-> <<>>, warned |-> {}]

\* validate_scat_gain
validate_scat_gain(structure_type, scat_gain) ==
    IF scat_gain < 0 THEN <<GainMsg(structure_type)>> ELSE <<>>

\* validate_phantom_format: supported_formats
supported_formats == {"effec_scatterers", "k_wave"}

validate_phantom_format(phantom_format) ==
    IF phantom_format \notin supported_formats
    THEN <<FormatMsg(phantom_format)>>
    ELSE <<>>

\* validate_structures: supported_structures, with a type the generator lacks
supported_structures_with_square ==
    {"circle", "rectangle", "free_polygon", "points", "sphere", "square"}

\* validate_structures: supported_structures
supported_structures == {"circle", "rectangle", "free_polygon", "points", "sphere"}

\* validate_structures: the body of its loop, from the report so far to the
\* report after `region`
validate_region(error_msg_in, region, num_of_rows, num_of_cols, num_of_z) ==
    LET region_type == Lower(region["type"])
    IN  IF region_type \notin supported_structures
        THEN \* `error_msg = ...`: an assignment, the report so far is dropped
             <<UnsupportedStructureMsg(region_type), SupportedStructuresMsg>>
        ELSE error_msg_in
             \o validate_scat_gain(region["type"], region["scat_gain"])
             \o (CASE region_type = "circle" ->
                        Circle_validate(region["center_xy"], region["radius"], num_of_rows, num_of_cols)
                   [] region_type = "rectangle" ->
                        Rectangle_validate(region["top_left_corner_xy"], region["length_x"], region["length_y"], num_of_rows, num_of_cols)
                   [] region_type = "free_polygon" ->
                        Structure_validate(region["vertices_xy"], num_of_rows, num_of_cols)
                   [] region_type = "points" ->
                        Structure_validate(region["coordinates_xy"], num_of_rows, num_of_cols)
                   [] region_type = "sphere" ->
                        Sphere_validate(region["center_xyz"], region["radius"], num_of_rows, num_of_cols, num_of_z)
                   [] OTHER -> <<>>)

RECURSIVE validate_structures_from(_, _, _, _, _, _)
\* validate_structures: the loop over the regions from index i on
validate_structures_from(error_msg_in, structures, i, num_of_rows, num_of_cols, num_of_z) ==
    IF i > Len(structures)
    THEN error_msg_in
    ELSE validate_structures_from(
             validate_region(error_msg_in, structures[i], num_of_rows, num_of_cols, num_of_z),
             structures, i + 1, num_of_rows, num_of_cols, num_of_z)

\* validate_structures
validate_structures(structures, num_of_rows, num_of_cols, num_of_z) ==
    validate_structures_from(<<>>, structures, 1, num_of_rows, num_of_cols, num_of_z)

\* the paths for which Path.is_file() or Path.is_dir() holds
ExistingPaths == {"input_image.bmp"}

\* validate_configuration that compares the format as written
validate_2d_only_cased(config, phantom_format) ==
    IF Get(config, "depth_z", 1) > 1 /\ config["phantom_format"] = "effec_scatterers"
    THEN <<Only2DMsg>>
    ELSE <<>>

\* validate_configuration: the 3-D check of lines 224 to 226
validate_2d_only(config, phantom_format) ==
    IF Get(config, "depth_z", 1) > 1 /\ phantom_format = "effec_scatterers"
    THEN <<Only2DMsg>>
    ELSE <<>>

\* validate_configuration: [raised, report, warned]; `report` is returned only
\* when `raised` is NoException
validate_configuration(config) ==
    LET image_path == Get(config, "image_path", "")
        missing == check_parameters_are_present(config, image_path # "")
    IN  IF missing # <<>>
        THEN [raised |-> [kind |-> "MissingParameter", msgs |-> <<MissingHeaderMsg>> \o missing],
              report |-> <<>>, warned |-> {}]
        ELSE
        LET perc == validate_perc_of_scat(config["perc_of_scatterers"])
            phantom_format == Lower(config["phantom_format"])
            head == validate_distribution(Lower(config["distribution"]))
                    \o perc.error_msg
                    \o validate_phantom_format(phantom_format)
        IN  IF image_path = ""
            THEN IF ~Has(config, "structures")
                 THEN [raised |-> [kind |-> "KeyError", msgs |-> <<Msg("KeyError", "structures")>>],
                       report |-> <<>>, warned |-> perc.warned]
                 ELSE [raised |-> NoException,
                       report |-> head
                                  \o validate_2d_only(config, phantom_format)
                                  \o validate_structures(config["structures"],
                                                         config["rows_y"],
                                                         config["cols_x"],
                                                         Get(config, "depth_z", 1)),
                       warned |-> perc.warned]
            ELSE IF image_path \notin ExistingPaths
                 THEN [raised |-> [kind |-> "ImageNotFound", msgs |-> <<Msg("Input image was not found.", image_path)>>],
                       report |-> <<>>, warned |-> perc.warned]
                 ELSE [raised |-> NoException,
                       report |-> head
                                  \o (IF phantom_format # "effec_scatterers"
                                      THEN <<ImageFormatMsg>> ELSE <<>>),
                       warned |-> perc.warned]

(***************************************************************************)
(* phantom.py: generation of one slice and persistence                     *)
(***************************************************************************)
\* Python 3 round() of the fraction n / d (d > 0): to nearest, ties to even
Round(n, d) ==
    LET q == n \div d
        r == n % d
    IN  IF 2 * r < d THEN q
        ELSE IF 2 * r > d THEN q + 1
        ELSE IF q % 2 = 0 THEN q ELSE q + 1

\* Phantom.generate_scatterers: k, the absolute number of scatterers
scatterer_count(dens, num_of_rows, num_of_cols) ==
    Round(dens * num_of_rows * num_of_cols, 100)

\* Phantom.generate_scatterers: the distributions of its if/elif chain
generated_distributions == {"uniform", "gaussian", "rayleigh"}

\* Phantom.generate_scatterers: the ways it can end.  An unknown distribution
\* raises; np.amin of an empty array (k = 0) raises ValueError; with k = 1 the
\* normalization divides 0 by 0 and casts nan to int, whose value depends on
\* the platform: an index outside the array (IndexError) or a valid index.
generate_scatterers(dist, k) ==
    IF dist \notin generated_distributions
    THEN {[kind |-> "UnknownDistribution", msgs |-> <<Msg("Unknown distribution defined: ", dist)>>]}
    ELSE IF k <= 0
    THEN {[kind |-> "ValueError", msgs |-> <<Msg("zero-size array to reduction operation minimum which has no identity", "")>>]}
    ELSE IF k = 1
    THEN {[kind |-> "IndexError", msgs |-> <<Msg("index is out of bounds", "")>>], NoException}
    ELSE {NoException}

\* generate_phantom_matrix: the region types of its if/elif chain
dispatched_structures == {"circle", "sphere", "rectangle", "free_polygon", "points"}

RECURSIVE fill_regions(_, _, _, _)
\* generate_phantom_matrix: the loop over config["structures"] from index i
\* on; [raised, fills] with the fills made before it ended
fill_regions(structures, i, slice, done) ==
    IF i > Len(structures)
    THEN [raised |-> NoException, fills |-> done]
    ELSE LET region_type == Lower(structures[i]["type"])
         IN  IF region_type \in dispatched_structures
             THEN fill_regions(structures, i + 1, slice, Append(done, <<region_type, slice>>))
             ELSE [raised |-> [kind |-> "UnknownStructure",
                               msgs |-> <<Msg("Unknown structure defined: ", region_type)>>],
                   fills |-> done]

\* Phantom.generate_phantom_matrix: the ways it can end, each [raised, fills]
generate_phantom_matrix(config, slice) ==
    LET dist == Lower(config["distribution"])
        k == scatterer_count(config["perc_of_scatterers"], config["rows_y"], config["cols_x"])
    IN  { IF scat = NoException
          THEN fill_regions(config["structures"], 1, slice, <<>>)
          ELSE [raised |-> scat, fills |-> <<>>]
          : scat \in generate_scatterers(dist, k) }

\* the size of the image behind an existing image_path
ImageRows == Rows
ImageCols == Cols

\* Phantom.generate_phantom_from_image: the ways it can end
generate_phantom_from_image(config) ==
    generate_scatterers(Lower(config["distribution"]),
                        scatterer_count(config["perc_of_scatterers"], ImageRows, ImageCols))

\* a file name: the path prefix, then postfix ("" is <<>>, "_slice_z" is
\* <<z>>), then suffix, then the extension
File(postfix, suffix, ext) == [postfix |-> postfix, suffix |-> suffix, ext |-> ext]

\* Phantom.save_mat_file: the files it writes
save_mat_file(postfix, phantom_format) ==
    {File(postfix, "", "mat")}
    \cup (IF phantom_format = "k_wave"
          THEN {File(postfix, "_sound_speed_map", "mat"), File(postfix, "_density_map", "mat")}
          ELSE {})

\* Phantom.save_png_image: the files it writes
save_png_image(postfix, phantom_format) ==
    {File(postfix, "", "png")}
    \cup (IF phantom_format = "k_wave"
          THEN {File(postfix, "_density_map", "png"), File(postfix, "_sound_speed_map", "png")}
          ELSE {})

\* Phantom.save_all: the files it writes; output_format is the set of the
\* letters of args.format
save_all(output_format, postfix, phantom_format) ==
    (IF "t" \in output_format THEN {File(postfix, "", "txt")} ELSE {})
    \cup (IF "m" \in output_format THEN save_mat_file(postfix, phantom_format) ELSE {})
    \cup (IF "p" \in output_format THEN save_png_image(postfix, phantom_format) ELSE {})

\* Phantom.mat_2d_to_3d: the per-slice files it loads
mat_2d_to_3d_reads(postfix, num_of_slices) ==
    {File(<<0>>, postfix, "mat")}
    \cup {File(<<z>>, postfix, "mat") : z \in 1..(num_of_slices - 1)}

\* Phantom.generate_final_output: [raised, written] given the files on disk
generate_final_output(config, on_disk) ==
    LET num_of_z == Get(config, "depth_z", 1)
        kinds == <<"", "_sound_speed_map", "_density_map">>
        \* the first array kind one of whose slice files is absent, 0 if none
        failing == IF \E n \in 1..3 : ~(mat_2d_to_3d_reads(kinds[n], num_of_z) \subseteq on_disk)
                   THEN CHOOSE n \in 1..3 :
                          /\ ~(mat_2d_to_3d_reads(kinds[n], num_of_z) \subseteq on_disk)
                          /\ \A m \in 1..(n - 1) : mat_2d_to_3d_reads(kinds[m], num_of_z) \subseteq on_disk
                   ELSE 0
    IN  IF num_of_z = 1 \/ Lower(config["phantom_format"]) # "k_wave"
        THEN [raised |-> NoException, written |-> {}]
        ELSE IF failing # 0
        THEN [raised |-> [kind |-> "FileNotFoundError", msgs |-> <<Msg("No such file", kinds[failing])>>],
              written |-> {File(<<>>, kinds[m], "mat") : m \in 1..(failing - 1)}]
        ELSE [raised |-> NoException,
              written |-> {File(<<>>, kinds[m], "mat") : m \in 1..3}]

(***************************************************************************)
(* structures.py: the fills.  The grids of a Phantom travel together as a  *)
(* record g = [phantom, sound_speed_map, density_map, writes]; a grid is   *)
(* indexed as in the code, grid[x][y] with x < cols_x and y < rows_y.      *)
(* Amplitudes and gains are integers.  density_map holds thirds of a       *)
(* kg/m^3, so that scattering_c0 / 1.5 is the integer 2 * scattering_c0.   *)
(***************************************************************************)
\* abs()
Abs(v) == IF v < 0 THEN 0 - v ELSE v

\* grid[pos_x][pos_y] = value
SetCell(grid, pos_x, pos_y, value) ==
    [grid EXCEPT ![pos_x] = [grid[pos_x] EXCEPT ![pos_y] = value]]

\* [[value for y in range(num_of_rows)] for x in range(num_of_cols)]
FilledGrid(num_of_rows, num_of_cols, value) ==
    [x \in 0..(num_of_cols - 1) |-> [y \in 0..(num_of_rows - 1) |-> value]]

\* a density in kg/m^3 as thirds of a kg/m^3
InThirds(density) == 3 * density

\* scattering_c0 / 1.5, in thirds of a kg/m^3
DividedBy1_5(scattering_c0) == 2 * scattering_c0

\* Structure.calculate_scattering_c0 without the lower limit
calculate_scattering_c0_no_floor(amplitude, config) ==
    LET c0 == Get(config, "sound_speed_c0_m_per_s", 1540)
        scattering_c0 == c0 + 25 + 75 * amplitude
    IN  IF scattering_c0 > 1600 THEN 1600 ELSE scattering_c0

\* Structure.calculate_scattering_c0
calculate_scattering_c0(amplitude, config) ==
    LET c0 == Get(config, "sound_speed_c0_m_per_s", 1540)
        scattering_c0 == c0 + 25 + 75 * amplitude
        capped == IF scattering_c0 > 1600 THEN 1600 ELSE scattering_c0
    IN  IF capped < 1400 THEN 1400 ELSE capped

\* Structure.fill_structure that derives the maps whatever the format
fill_structure_always_maps(g, pos_x, pos_y, scat_gain, config) ==
    LET value == g.phantom[pos_x][pos_y] * scat_gain
        scattering_c0 == calculate_scattering_c0(Abs(value), config)
    IN  [phantom |-> SetCell(g.phantom, pos_x, pos_y, value),
         sound_speed_map |-> SetCell(g.sound_speed_map, pos_x, pos_y, scattering_c0),
         density_map |-> SetCell(g.density_map, pos_x, pos_y, DividedBy1_5(scattering_c0)),
         writes |-> Append(g.writes, <<pos_x, pos_y, scat_gain>>)]

\* Structure.fill_structure that applies a gain to a cell once only
fill_structure_once(g, pos_x, pos_y, scat_gain, config) ==
    LET value == g.phantom[pos_x][pos_y] * scat_gain
        scattering_c0 == calculate_scattering_c0(Abs(value), config)
    IN  IF <<pos_x, pos_y, scat_gain>> \in Range(g.writes)
        THEN g
        ELSE IF Lower(config["phantom_format"]) = "k_wave"
        THEN [phantom |-> SetCell(g.phantom, pos_x, pos_y, value),
              sound_speed_map |-> SetCell(g.sound_speed_map, pos_x, pos_y, scattering_c0),
              density_map |-> SetCell(g.density_map, pos_x, pos_y, DividedBy1_5(scattering_c0)),
              writes |-> Append(g.writes, <<pos_x, pos_y, scat_gain>>)]
        ELSE [g EXCEPT !.phantom = SetCell(g.phantom, pos_x, pos_y, value),
                       !.writes = Append(g.writes, <<pos_x, pos_y, scat_gain>>)]

\* Structure.fill_structure
fill_structure(g, pos_x, pos_y, scat_gain, config) ==
    LET value == g.phantom[pos_x][pos_y] * scat_gain
        scattering_c0 == calculate_scattering_c0(Abs(value), config)
    IN  IF Lower(config["phantom_format"]) = "k_wave"
        THEN [phantom |-> SetCell(g.phantom, pos_x, pos_y, value),
              sound_speed_map |-> SetCell(g.sound_speed_map, pos_x, pos_y, scattering_c0),
              density_map |-> SetCell(g.density_map, pos_x, pos_y, DividedBy1_5(scattering_c0)),
              writes |-> Append(g.writes, <<pos_x, pos_y, scat_gain>>)]
        ELSE [g EXCEPT !.phantom = SetCell(g.phantom, pos_x, pos_y, value),
                       !.writes = Append(g.writes, <<pos_x, pos_y, scat_gain>>)]

\* for x in range(x_from, x_to): for y in range(y_from, y_to): the cells
\* <<x, y>> in the order the two loops visit them
Scan(x_from, x_to, y_from, y_to) ==
    LET width == IF x_to > x_from THEN x_to - x_from ELSE 0
        height == IF y_to > y_from THEN y_to - y_from ELSE 0
    IN  [k \in 1..(width * height) |->
            <<x_from + ((k - 1) \div height), y_from + ((k - 1) % height)>>]

\* the calls of fill_structure a scan makes, on the cells from index i on.  The
\* cells of a scan are distinct and fill_structure reads and writes the one
\* cell it is given, so each call finds that cell as it was before the scan:
\* the grids after the scan hold, in every scanned cell, what the call on
\* that cell leaves there
fill_cells(g, cells, i, scat_gain, config) ==
    LET scanned == {cells[k] : k \in i..Len(cells)}
        after(x, y) == fill_structure(g, x, y, scat_gain, config)
    IN  [phantom |->
            [x \in DOMAIN g.phantom |-> [y \in DOMAIN g.phantom[x] |->
                IF <<x, y>> \in scanned THEN after(x, y).phantom[x][y] ELSE g.phantom[x][y]]],
         sound_speed_map |->
            [x \in DOMAIN g.sound_speed_map |-> [y \in DOMAIN g.sound_speed_map[x] |->
                IF <<x, y>> \in scanned THEN after(x, y).sound_speed_map[x][y]
                ELSE g.sound_speed_map[x][y]]],
         density_map |->
            [x \in DOMAIN g.density_map |-> [y \in DOMAIN g.density_map[x] |->
                IF <<x, y>> \in scanned THEN after(x, y).density_map[x][y]
                ELSE g.density_map[x][y]]],
         writes |->
            g.writes \o [k \in 1..(Len(cells) - i + 1) |->
                            <<cells[k + i - 1][1], cells[k + i - 1][2], scat_gain>>]]

\* pow(x - cx, 2) + pow(y - cy, 2) + pow(dz, 2) <= pow(radius, 2)
WithinRadius(cell, center, dz, radius) ==
    (cell[1] - PointX(center)) * (cell[1] - PointX(center))
    + (cell[2] - PointY(center)) * (cell[2] - PointY(center))
    + dz * dz <= radius * radius

\* Circle.fill_area whose scan reaches center + radius
Circle_fill_area_closed(g, center, radius, scat_gain, config) ==
    LET top_x == PointX(center) - radius
        top_y == PointY(center) - radius
        inside(cell) == WithinRadius(cell, center, 0, radius)
    IN  fill_cells(g, SelectSeq(Scan(top_x, top_x + 2 * radius + 1, top_y, top_y + 2 * radius + 1), inside),
                   1, scat_gain, config)

\* Circle.fill_area whose scan goes from center - radius + 1 to center + radius
Circle_fill_area_mirrored(g, center, radius, scat_gain, config) ==
    LET top_x == PointX(center) - radius + 1
        top_y == PointY(center) - radius + 1
        inside(cell) == WithinRadius(cell, center, 0, radius)
    IN  fill_cells(g, SelectSeq(Scan(top_x, top_x + 2 * radius, top_y, top_y + 2 * radius), inside),
                   1, scat_gain, config)

\* Circle.fill_area
Circle_fill_area(g, center, radius, scat_gain, config) ==
    LET top_x == PointX(center) - radius
        top_y == PointY(center) - radius
        inside(cell) == WithinRadius(cell, center, 0, radius)
    IN  fill_cells(g, SelectSeq(Scan(top_x, top_x + 2 * radius, top_y, top_y + 2 * radius), inside),
                   1, scat_gain, config)

\* Rectangle.fill_area whose scan reaches the far corner
Rectangle_fill_area_closed(g, top_left_corner, horizontal_length, vertical_length, scat_gain, config) ==
    fill_cells(g, Scan(PointX(top_left_corner), PointX(top_left_corner) + horizontal_length + 1,
                       PointY(top_left_corner), PointY(top_left_corner) + vertical_length + 1),
               1, scat_gain, config)

\* Rectangle.fill_area
Rectangle_fill_area(g, top_left_corner, horizontal_length, vertical_length, scat_gain, config) ==
    fill_cells(g, Scan(PointX(top_left_corner), PointX(top_left_corner) + horizontal_length,
                       PointY(top_left_corner), PointY(top_left_corner) + vertical_length),
               1, scat_gain, config)

\* min() and max() of the numbers of a non-empty set
Min(S) == CHOOSE m \in S : \A n \in S : m <= n
Max(S) == CHOOSE m \in S : \A n \in S : m >= n

\* Polygon.fill_area whose scan stops one column and one row early
Polygon_fill_area_short(g, origins, scat_gain, config) ==
    LET min_x == Min({0} \cup {PointX(origins[i]) : i \in 1..Len(origins)})
        max_x == Max({0} \cup {PointX(origins[i]) : i \in 1..Len(origins)})
        min_y == Min({0} \cup {PointY(origins[i]) : i \in 1..Len(origins)})
        max_y == Max({0} \cup {PointY(origins[i]) : i \in 1..Len(origins)})
        inside(cell) == in_polygon(cell, origins)
    IN  fill_cells(g, SelectSeq(Scan(min_x, max_x - 1, min_y, max_y - 1), inside), 1, scat_gain, config)

\* Polygon.fill_area: min_x, max_x, min_y and max_y start at 0
Polygon_fill_area(g, origins, scat_gain, config) ==
    LET min_x == Min({0} \cup {PointX(origins[i]) : i \in 1..Len(origins)})
        max_x == Max({0} \cup {PointX(origins[i]) : i \in 1..Len(origins)})
        min_y == Min({0} \cup {PointY(origins[i]) : i \in 1..Len(origins)})
        max_y == Max({0} \cup {PointY(origins[i]) : i \in 1..Len(origins)})
        inside(cell) == in_polygon(cell, origins)
    IN  fill_cells(g, SelectSeq(Scan(min_x, max_x, min_y, max_y), inside), 1, scat_gain, config)

\* SinglePoint.fill_area: lines 323 and 324, a scatterer is put where none is
seed_scatterer(g, point) ==
    IF g.phantom[PointX(point)][PointY(point)] = 0
    THEN [g EXCEPT !.phantom = SetCell(g.phantom, PointX(point), PointY(point), 1)]
    ELSE g

RECURSIVE SinglePoint_fill_from(_, _, _, _, _)
\* SinglePoint.fill_area: its loop from index i on
SinglePoint_fill_from(g, origins, i, scat_gain, config) ==
    IF i > Len(origins)
    THEN g
    ELSE SinglePoint_fill_from(
             fill_structure(seed_scatterer(g, origins[i]),
                            PointX(origins[i]), PointY(origins[i]), scat_gain, config),
             origins, i + 1, scat_gain, config)

RECURSIVE SinglePoint_fill_unseeded_from(_, _, _, _, _)
\* SinglePoint.fill_area without lines 323 and 324: its loop from index i on
SinglePoint_fill_unseeded_from(g, origins, i, scat_gain, config) ==
    IF i > Len(origins)
    THEN g
    ELSE SinglePoint_fill_unseeded_from(
             fill_structure(g, PointX(origins[i]), PointY(origins[i]), scat_gain, config),
             origins, i + 1, scat_gain, config)

\* SinglePoint.fill_area that puts no scatterer
SinglePoint_fill_area_unseeded(g, origins, scat_gain, config) ==
    SinglePoint_fill_unseeded_from(g, origins, 1, scat_gain, config)

\* SinglePoint.fill_area
SinglePoint_fill_area(g, origins, scat_gain, config) ==
    SinglePoint_fill_from(g, origins, 1, scat_gain, config)

\* Sphere.fill_volume that fills the same disc in every slice
Sphere_fill_volume_flat(g, slice, center, radius, scat_gain, config) ==
    LET top_x == PointX(center) - radius
        top_y == PointY(center) - radius
        inside(cell) == WithinRadius(cell, center, 0, radius)
    IN  fill_cells(g, SelectSeq(Scan(top_x, top_x + 2 * radius, top_y, top_y + 2 * radius), inside),
                   1, scat_gain, config)

\* Sphere.fill_volume whose test is < in place of <=
Sphere_fill_volume_open(g, slice, center, radius, scat_gain, config) ==
    LET top_x == PointX(center) - radius
        top_y == PointY(center) - radius
        strictly(cell) == (cell[1] - PointX(center)) * (cell[1] - PointX(center))
                          + (cell[2] - PointY(center)) * (cell[2] - PointY(center))
                          + (slice - PointZ(center)) * (slice - PointZ(center)) < radius * radius
    IN  fill_cells(g, SelectSeq(Scan(top_x, top_x + 2 * radius, top_y, top_y + 2 * radius), strictly),
                   1, scat_gain, config)

\* Sphere.fill_volume
Sphere_fill_volume(g, slice, center, radius, scat_gain, config) ==
    LET top_x == PointX(center) - radius
        top_y == PointY(center) - radius
        inside(cell) == WithinRadius(cell, center, slice - PointZ(center), radius)
    IN  fill_cells(g, SelectSeq(Scan(top_x, top_x + 2 * radius, top_y, top_y + 2 * radius), inside),
                   1, scat_gain, config)

(***************************************************************************)
(* The inputs of a run: configurations and command lines                   *)
(***************************************************************************)
Circle(center_xy, radius, scat_gain) ==
    [type |-> "circle", center_xy |-> center_xy, radius |-> radius, scat_gain |-> scat_gain]
Rectangle(type, top_left_corner_xy, length_x, length_y, scat_gain) ==
    [type |-> type, top_left_corner_xy |-> top_left_corner_xy,
     length_x |-> length_x, length_y |-> length_y, scat_gain |-> scat_gain]
FreePolygon(vertices_xy, scat_gain) ==
    [type |-> "free_polygon", vertices_xy |-> vertices_xy, scat_gain |-> scat_gain]
Points(coordinates_xy, scat_gain) ==
    [type |-> "points", coordinates_xy |-> coordinates_xy, scat_gain |-> scat_gain]
Sphere(type, center_xyz, radius, scat_gain) ==
    [type |-> type, center_xyz |-> center_xyz, radius |-> radius, scat_gain |-> scat_gain]

\* Regions of every supported type, valid and invalid, and one of a type that
\* is not supported (the "square" of test_invalid_structure_define)
RegionPool ==
    { Circle(<<2, 2>>, 1, 3),
      Circle(<<0, 0>>, 1, -1),
      Rectangle("Rectangle", <<0, 0>>, Cols - 1, Rows - 1, 0),
      Rectangle("rectangle", <<0, 0>>, Cols, Rows, 4),
      FreePolygon(<<<<1, 1>>, <<3, 1>>, <<3, 3>>>>, 0),
      Points(<<<<0, 0>>, <<Cols - 1, Rows - 1>>>>, -2),
      Sphere("SPHERE", <<2, 2, 1>>, 1, 2),
      Rectangle("square", <<1, 1>>, 1, 1, 4) }

SeqsUpTo(S, n) == UNION {[1..m -> S] : m \in 0..n}

StructureLists == SeqsUpTo(RegionPool, MaxRegions)

Distributions == {"uniform", "Gaussian", "rayleigh", "gamma"}
PercValues == {0, 1, 5, 50, 100, 101}
Formats == {"effec_scatterers", "Effec_Scatterers", "k_wave", "K_Wave", "field_ii"}
Depths == 0..MaxDepth

ConfigKeys == {"rows_y", "cols_x", "distribution", "perc_of_scatterers", "phantom_format",
               "sound_speed_c0_m_per_s", "density_rho0_kg_per_m3", "structures"}

\* a configuration with every key of ConfigKeys
FullConfig(distribution, perc, format, structures) ==
    [rows_y |-> Rows, cols_x |-> Cols, distribution |-> distribution,
     perc_of_scatterers |-> perc, phantom_format |-> format,
     sound_speed_c0_m_per_s |-> 1540, density_rho0_kg_per_m3 |-> 1000,
     structures |-> structures]

\* dict.update({key: value})
Update(config, key, value) ==
    [k \in DOMAIN config \cup {key} |-> IF k = key THEN value ELSE config[k]]

\* the dict with only the keys in `keys`
Restrict(config, keys) == [k \in keys |-> config[k]]

WithDepth(config, depth) == Update(config, "depth_z", depth)

\* every scalar parameter varies; few structures
ScalarConfigs ==
    LET base == { FullConfig(d, p, f, s) :
                    d \in Distributions, p \in PercValues, f \in Formats,
                    s \in {<<>>, <<Rectangle("rectangle", <<0, 0>>, Cols, Rows, 4)>>} }
    IN  base \cup { WithDepth(c, z) : c \in base, z \in Depths }

\* every list of regions; valid scalar parameters
StructureConfigs ==
    LET base == { FullConfig("Gaussian", 50, f, s) :
                    f \in {"effec_scatterers", "k_wave"}, s \in StructureLists }
    IN  base \cup { WithDepth(c, MaxDepth) : c \in base }

\* every subset of the keys
PartialConfigs ==
    { Restrict(FullConfig("gamma", 100, f, <<Circle(<<0, 0>>, 1, -1)>>), keys) :
        f \in {"effec_scatterers", "k_wave", "K_Wave"}, keys \in SUBSET ConfigKeys }

\* configurations with an image as input
ImageConfigs ==
    { Update(Restrict(FullConfig(d, 50, f, <<>>), keys), "image_path", path) :
        d \in {"uniform", "gamma"}, f \in {"effec_scatterers", "k_wave"},
        keys \in {ConfigKeys \ {"structures"},
                  {"distribution", "perc_of_scatterers", "phantom_format"},
                  {"perc_of_scatterers", "phantom_format"}},
        path \in {"input_image.bmp", "missing.bmp", ""} }

\* valid parameters, the format written in lower or in mixed case, with and
\* without the two k_wave keys
KWaveKeyConfigs ==
    LET base == { Restrict(FullConfig("uniform", 50, f, <<Circle(<<2, 2>>, 1, 3)>>), ConfigKeys \ absent) :
                    f \in {"k_wave", "K_Wave"},
                    absent \in SUBSET {"sound_speed_c0_m_per_s", "density_rho0_kg_per_m3"} }
    IN  base \cup { WithDepth(c, MaxDepth) : c \in base }

Configurations ==
    ScalarConfigs \cup StructureConfigs \cup PartialConfigs \cup ImageConfigs \cup KWaveKeyConfigs

\* parse_arguments: args.format holds at least one of 't', 'm', 'p' (else the
\* tool exits); it is modelled as the set of those letters it holds
ArgFormats == (SUBSET {"t", "m", "p"}) \ {{}}
ArgVerbosities == {"", "ON"}

(***************************************************************************)
(* generate_phantom.py: the run of the tool                                *)
(***************************************************************************)
IsImage(config) == Get(config, "image_path", "") # ""

\* no Phantom object exists, or its grids are not followed
NoGrids ==
    /\ phantom = <<>>
    /\ sound_speed_map = <<>>
    /\ density_map = <<>>
    /\ writes = <<>>
    /\ region_i = 0

\* generate_scatterers is not running
NoScatterers == [k |-> 0, x |-> <<>>, y |-> <<>>, scatterers |-> <<>>, i |-> 0]

\* generate_scatterers is not running and no .mat file holds an array
NoOutput ==
    /\ scatter = NoScatterers
    /\ disk = <<>>

Init ==
    /\ pc = "parse_config"
    /\ configuration \in Configurations
    /\ args \in [format : ArgFormats, verbosity : ArgVerbosities]
    /\ error_msg = <<>>
    /\ exception = NoException
    /\ warnings = {}
    /\ slice_z = 0
    /\ generated = <<>>
    /\ fills = <<>>
    /\ files = {}
    /\ call = [fn |-> "none"]
    /\ ret = <<>>
    /\ NoGrids
    /\ NoOutput

Raise(e) ==
    /\ exception' = e
    /\ pc' = "raised"

\* parse_config: the verbose flag it adds to the configuration
verbose_flag(verbosity) ==
    IF verbosity = "" THEN FALSE ELSE Lower(verbosity) = "on"

\* parse_config that goes on whatever the report holds
ParseConfig_unchecked ==
    /\ pc = "parse_config"
    /\ LET config == Update(configuration, "verbose", verbose_flag(args.verbosity))
           v == validate_configuration(config)
       IN  /\ configuration' = config
           /\ warnings' = warnings \cup v.warned
           /\ IF v.raised # NoException
              THEN Raise(v.raised) /\ UNCHANGED error_msg
              ELSE /\ error_msg' = v.report
                   /\ pc' = "gen_phantom"
                   /\ UNCHANGED exception
    /\ UNCHANGED <<args, slice_z, generated, fills, files, call, ret, grid_vars, io_vars>>

\* main: parse_config (json.load is the choice of `configuration` in Init)
ParseConfig ==
    /\ pc = "parse_config"
    /\ LET config == Update(configuration, "verbose", verbose_flag(args.verbosity))
           v == validate_configuration(config)
       IN  /\ configuration' = config
           /\ warnings' = warnings \cup v.warned
           /\ IF v.raised # NoException
              THEN Raise(v.raised) /\ UNCHANGED error_msg
              ELSE /\ error_msg' = v.report
                   /\ IF v.report # <<>>
                      THEN Raise([kind |-> "ValidationError", msgs |-> v.report])
                      ELSE pc' = "gen_phantom" /\ UNCHANGED exception
    /\ UNCHANGED <<args, slice_z, generated, fills, files, call, ret, grid_vars, io_vars>>

\* gen_phantom: one iteration of its loop over the slices
GenSlice ==
    /\ pc = "gen_phantom"
    /\ ~IsImage(configuration)
    /\ slice_z < Get(configuration, "depth_z", 1)
    /\ \E g \in generate_phantom_matrix(configuration, slice_z) :
          /\ fills' = fills \o g.fills
          /\ IF g.raised # NoException
             THEN Raise(g.raised) /\ UNCHANGED <<generated, files, slice_z>>
             ELSE /\ generated' = Append(generated, slice_z)
                  /\ files' = files \cup
                        save_all(args.format,
                                 IF Get(configuration, "depth_z", 1) = 1 THEN <<>> ELSE <<slice_z>>,
                                 Lower(configuration["phantom_format"]))
                  /\ slice_z' = slice_z + 1
                  /\ UNCHANGED <<pc, exception>>
    /\ UNCHANGED <<configuration, args, error_msg, warnings, call, ret, grid_vars, io_vars>>

\* gen_phantom: after the loop, phantom.generate_final_output; `phantom` is
\* unbound when the loop made no iteration
GenFinalOutput ==
    /\ pc = "gen_phantom"
    /\ ~IsImage(configuration)
    /\ slice_z >= Get(configuration, "depth_z", 1)
    /\ IF generated = <<>>
       THEN Raise([kind |-> "UnboundLocalError", msgs |-> <<Msg("local variable referenced before assignment", "phantom")>>])
            /\ UNCHANGED files
       ELSE LET out == generate_final_output(configuration, files)
            IN  /\ files' = files \cup out.written
                /\ IF out.raised # NoException
                   THEN Raise(out.raised)
                   ELSE pc' = "show_phantom" /\ UNCHANGED exception
    /\ UNCHANGED <<configuration, args, error_msg, warnings, slice_z, generated, fills, call, ret, grid_vars, io_vars>>

\* gen_phantom: the image branch
GenFromImage ==
    /\ pc = "gen_phantom"
    /\ IsImage(configuration)
    /\ \E scat \in generate_phantom_from_image(configuration) :
          IF scat # NoException
          THEN Raise(scat) /\ UNCHANGED <<generated, files>>
          ELSE /\ generated' = Append(generated, 0)
               /\ files' = files \cup save_all(args.format, <<>>, Lower(configuration["phantom_format"]))
               /\ pc' = "show_phantom"
               /\ UNCHANGED exception
    /\ UNCHANGED <<configuration, args, error_msg, warnings, slice_z, fills, call, ret, grid_vars, io_vars>>

\* main: show_phantom, then the end of the run
ShowPhantom ==
    /\ pc = "show_phantom"
    /\ LET phantom_format == Lower(configuration["phantom_format"])
       IN  IF /\ ~(phantom_format = "k_wave" /\ "m" \in args.format)
              /\ phantom_format = "effec_scatterers" /\ "p" \in args.format
              /\ File(<<>>, "", "png") \notin files
           THEN Raise([kind |-> "FileNotFoundError", msgs |-> <<Msg("No such file", ".png")>>])
           ELSE pc' = "done" /\ UNCHANGED exception
    /\ UNCHANGED <<configuration, args, error_msg, warnings, slice_z, generated, fills, files, call, ret, grid_vars, io_vars>>

Next == ParseConfig \/ GenSlice \/ GenFinalOutput \/ GenFromImage \/ ShowPhantom

Spec == Init /\ [][Next]_vars

(***************************************************************************)
(* The validation functions applied on their own, as the unit tests of     *)
(* tests/test_structures.py and tests/test_validation.py apply them        *)
(***************************************************************************)
Coords == -1..MaxCoord
Extents == {MaxCoord - 1, MaxCoord}
Points2d == Coords \X Coords
Points3d == Coords \X Coords \X Coords
UnitPercValues == (0 - MaxPercOver)..(100 + MaxPercOver)

UnitCalls ==
    [fn : {"Structure.validate"}, origins : SeqsUpTo(Points2d, MaxPoints),
     num_of_rows : Extents, num_of_cols : Extents]
    \cup [fn : {"Rectangle.validate"}, top_left_corner : Points2d,
          horizontal_length : Coords, vertical_length : Coords,
          num_of_rows : Extents, num_of_cols : Extents]
    \cup [fn : {"Circle.validate"}, center : Points2d, radius : Coords,
          num_of_rows : Extents, num_of_cols : Extents]
    \cup [fn : {"Sphere.validate"}, center : Points3d, radius : Coords,
          num_of_rows : Extents, num_of_cols : Extents, num_of_z : Extents]
    \cup [fn : {"validate_perc_of_scat"}, perc_of_scatterers : UnitPercValues]

InitUnit ==
    /\ pc = "call"
    /\ call \in UnitCalls
    /\ ret = <<>>
    /\ configuration = [verbose |-> FALSE]
    /\ args = [format |-> {"t"}, verbosity |-> ""]
    /\ error_msg = <<>>
    /\ exception = NoException
    /\ warnings = {}
    /\ slice_z = 0
    /\ generated = <<>>
    /\ fills = <<>>
    /\ files = {}
    /\ NoGrids
    /\ NoOutput

Return(value) ==
    /\ ret' = value
    /\ pc' = "returned"
    /\ UNCHANGED <<configuration, args, error_msg, exception, slice_z, generated, fills, files, call, grid_vars, io_vars>>

CallStructureValidate ==
    /\ pc = "call" /\ call.fn = "Structure.validate"
    /\ Return(Structure_validate(call.origins, call.num_of_rows, call.num_of_cols))
    /\ UNCHANGED warnings

CallRectangleValidate ==
    /\ pc = "call" /\ call.fn = "Rectangle.validate"
    /\ Return(Rectangle_validate(call.top_left_corner, call.horizontal_length, call.vertical_length, call.num_of_rows, call.num_of_cols))
    /\ UNCHANGED warnings

CallCircleValidate ==
    /\ pc = "call" /\ call.fn = "Circle.validate"
    /\ Return(Circle_validate(call.center, call.radius, call.num_of_rows, call.num_of_cols))
    /\ UNCHANGED warnings

CallSphereValidate ==
    /\ pc = "call" /\ call.fn = "Sphere.validate"
    /\ Return(Sphere_validate(call.center, call.radius, call.num_of_rows, call.num_of_cols, call.num_of_z))
    /\ UNCHANGED warnings

CallValidatePercOfScat ==
    /\ pc = "call" /\ call.fn = "validate_perc_of_scat"
    /\ LET r == validate_perc_of_scat(call.perc_of_scatterers)
       IN  Return(r.error_msg) /\ warnings' = warnings \cup r.warned

NextUnit ==
    \/ CallStructureValidate
    \/ CallRectangleValidate
    \/ CallCircleValidate
    \/ CallSphereValidate
    \/ CallValidatePercOfScat

SpecUnit == InitUnit /\ [][NextUnit]_vars

(***************************************************************************)
(* Phantom.generate_phantom_matrix on one slice, region by region.  The    *)
(* configurations are those validate_configuration accepts (gen_phantom    *)
(* runs after parse_config), so every index of a fill is inside the grids  *)
(* and the else branch of line 126 is not taken.                           *)
(***************************************************************************)
\* the regions given one at a time
FillGains == {0, 3}
AllCircles ==
    { Circle(<<x, y>>, r, scat_gain) :
        x \in 0..(Cols - 1), y \in 0..(Rows - 1), r \in 1..MaxRadius, scat_gain \in FillGains }
AllRectangles ==
    { Rectangle("rectangle", <<x, y>>, w, h, 2) :
        x \in 0..(Cols - 1), y \in 0..(Rows - 1), w \in 1..Cols, h \in 1..Rows }
TriangleVertices == {0, 1, Cols - 1} \X {0, 2, Rows - 1}
AllTriangles == { FreePolygon(v, 5) : v \in [1..3 -> TriangleVertices] }
AllPoints ==
    { Points(c, scat_gain) :
        c \in SeqsUpTo({<<0, 0>>, <<1, 2>>, <<Cols - 1, Rows - 1>>}, MaxPoints),
        scat_gain \in FillGains }
AllSpheres ==
    { Sphere("sphere", <<x, y, z>>, r, 2) :
        x \in 1..(Cols - 1), y \in 1..(Rows - 1), z \in 0..MaxDepth, r \in 1..MaxRadius }

\* the regions given in lists
FillRegionPool ==
    { Circle(<<1, 1>>, 1, 3),
      Rectangle("Rectangle", <<0, 0>>, Cols - 1, Rows - 1, 2),
      Rectangle("rectangle", <<1, 2>>, 2, 1, 0),
      FreePolygon(<<<<1, 0>>, <<Cols - 1, Rows - 1>>, <<0, Rows - 1>>>>, 5),
      Points(<<<<0, 0>>, <<1, 1>>>>, 2),
      Sphere("SPHERE", <<1, 2, 1>>, 1, 2),
      Sphere("sphere", <<2, 1, MaxDepth - 2>>, 1, 3) }

\* a circle, a rectangle, a polygon and a sphere that share a cell, and the
\* same with the circle given twice
StackedRegions ==
    <<Circle(<<1, 2>>, 1, 3),
      Rectangle("rectangle", <<0, 1>>, 2, 2, 2),
      FreePolygon(<<<<0, 0>>, <<Cols - 1, Rows - 1>>, <<0, Rows - 1>>>>, 5),
      Sphere("sphere", <<1, 2, 1>>, 1, 7)>>

\* the lists given for a phantom of one slice
FlatStructureLists ==
    { <<region>> : region \in AllCircles \cup AllRectangles \cup AllTriangles \cup AllPoints }

\* the lists given for a phantom of one slice and for one of MaxDepth slices
FillStructureLists ==
    { <<region>> : region \in AllSpheres }
    \cup SeqsUpTo(FillRegionPool, MaxRegions)
    \cup {StackedRegions, <<StackedRegions[1]>> \o StackedRegions}

\* the scatterer values in the cells with x + y even and in those with x + y odd
FieldPatterns == {<<0, 1>>, <<1, -2>>, <<-2, 0>>, <<1, 1>>}

\* self.phantom after generate_scatterers
ScattererField(num_of_rows, num_of_cols, pattern) ==
    [x \in 0..(num_of_cols - 1) |->
        [y \in 0..(num_of_rows - 1) |-> pattern[((x + y) % 2) + 1]]]

C0Values == {1300, 1450, 1540}

\* the dict without the key
Without(config, key) == Restrict(config, (DOMAIN config) \ {key})

FillFormatConfigs ==
    { FullConfig("uniform", 50, "effec_scatterers", <<>>),
      Without(Without(FullConfig("uniform", 50, "K_Wave", <<>>), "sound_speed_c0_m_per_s"),
              "density_rho0_kg_per_m3") }
    \cup { Update(FullConfig("uniform", 50, "k_wave", <<>>), "sound_speed_c0_m_per_s", c0) :
             c0 \in C0Values }

\* the grids and the regions of CheckFilledArea: a field of ones
TestRows == 20
TestCols == 20
TestRegions ==
    { Circle(<<10, 8>>, 5, 7),
      Rectangle("rectangle", <<5, 5>>, 4, 3, 7),
      FreePolygon(<<<<5, 0>>, <<9, 4>>, <<0, 4>>>>, 7),
      Points(<<<<1, 2>>, <<3, 2>>>>, 6) }
TestConfigs ==
    { Update(Update(Update(base, "rows_y", TestRows), "cols_x", TestCols), "structures", <<region>>) :
        base \in FillFormatConfigs, region \in TestRegions }

Accepted(config) ==
    LET v == validate_configuration(config)
    IN  v.raised = NoException /\ v.report = <<>>

FillConfigs ==
    { c \in { Update(base, "structures", s) :
                base \in FillFormatConfigs, s \in FlatStructureLists }
             \cup { WithDepth(Update(base, "structures", s), d) :
                      base \in FillFormatConfigs, s \in FillStructureLists, d \in {1, MaxDepth} }
             \cup TestConfigs :
        Accepted(c) }

\* the grids as one record, and back
Grids ==
    [phantom |-> phantom, sound_speed_map |-> sound_speed_map,
     density_map |-> density_map, writes |-> writes]

SetGrids(g) ==
    /\ phantom' = g.phantom
    /\ sound_speed_map' = g.sound_speed_map
    /\ density_map' = g.density_map
    /\ writes' = g.writes

\* generate_phantom_matrix, lines 83 to 97: the grids before the first region
InitFill ==
    /\ pc = "fill_regions"
    /\ configuration \in FillConfigs
    /\ slice_z \in 0..(Get(configuration, "depth_z", 1) - 1)
    /\ \E pattern \in FieldPatterns :
          phantom = ScattererField(configuration["rows_y"], configuration["cols_x"], pattern)
    /\ sound_speed_map = FilledGrid(configuration["rows_y"], configuration["cols_x"],
                                    Get(configuration, "sound_speed_c0_m_per_s", 1540))
    /\ density_map = FilledGrid(configuration["rows_y"], configuration["cols_x"],
                                InThirds(Get(configuration, "density_rho0_kg_per_m3", 1000)))
    /\ writes = <<>>
    /\ region_i = 1
    /\ args = [format |-> {"t"}, verbosity |-> ""]
    /\ error_msg = <<>>
    /\ exception = NoException
    /\ warnings = {}
    /\ generated = <<>>
    /\ fills = <<>>
    /\ files = {}
    /\ call = [fn |-> "none"]
    /\ ret = <<>>
    /\ NoOutput

\* generate_phantom_matrix, lines 99 to 101: the loop is at a region of the type
AtRegion(region_type) ==
    /\ pc = "fill_regions"
    /\ region_i <= Len(configuration["structures"])
    /\ Lower(configuration["structures"][region_i]["type"]) = region_type

\* the loop goes to the next region
Filled(region_type, g) ==
    /\ SetGrids(g)
    /\ fills' = Append(fills, <<region_type, slice_z>>)
    /\ region_i' = region_i + 1
    /\ UNCHANGED <<pc, configuration, args, error_msg, exception, warnings, slice_z,
                   generated, files, call, ret, io_vars>>

FillCircle ==
    /\ AtRegion("circle")
    /\ LET region == configuration["structures"][region_i]
       IN  Filled("circle", Circle_fill_area(Grids, region["center_xy"], region["radius"],
                                             region["scat_gain"], configuration))

FillSphere ==
    /\ AtRegion("sphere")
    /\ LET region == configuration["structures"][region_i]
       IN  Filled("sphere", Sphere_fill_volume(Grids, slice_z, region["center_xyz"], region["radius"],
                                               region["scat_gain"], configuration))

FillRectangle ==
    /\ AtRegion("rectangle")
    /\ LET region == configuration["structures"][region_i]
       IN  Filled("rectangle", Rectangle_fill_area(Grids, region["top_left_corner_xy"],
                                                   region["length_x"], region["length_y"],
                                                   region["scat_gain"], configuration))

FillPolygon ==
    /\ AtRegion("free_polygon")
    /\ LET region == configuration["structures"][region_i]
       IN  Filled("free_polygon", Polygon_fill_area(Grids, region["vertices_xy"],
                                                    region["scat_gain"], configuration))

FillPoints ==
    /\ AtRegion("points")
    /\ LET region == configuration["structures"][region_i]
       IN  Filled("points", SinglePoint_fill_area(Grids, region["coordinates_xy"],
                                                  region["scat_gain"], configuration))

\* generate_phantom_matrix returns after the last region
EndFill ==
    /\ pc = "fill_regions"
    /\ region_i > Len(configuration["structures"])
    /\ pc' = "filled"
    /\ UNCHANGED <<configuration, args, error_msg, exception, warnings, slice_z,
                   generated, fills, files, call, ret, grid_vars, io_vars>>

NextFill == FillCircle \/ FillSphere \/ FillRectangle \/ FillPolygon \/ FillPoints \/ EndFill

SpecFill == InitFill /\ [][NextFill]_vars

(***************************************************************************)
(* Phantom.generate_scatterers, step by step, on the grids of a new        *)
(* Phantom.  A draw of np.random.uniform is a number s of Samples, which    *)
(* stands for the float s / (MaxSample + 1); the normalization is computed  *)
(* on exact fractions.  A scatterer, complex(amp*cos(phase),                *)
(* amp*sin(phase)), is an integer as the amplitudes of the fills are.       *)
(***************************************************************************)
Samples == 0..MaxSample

\* astype(int) of nan: the most negative integer on x86-64, 0 on aarch64;
\* IntMin stands for that most negative integer
IntMin == 0 - 2147483647
NanAsInt == {IntMin, 0}

\* the normalization without the subtraction of the minimum
normalize_unshifted(draws, extent) ==
    LET max_x == Max(Range(draws))
    IN  IF max_x = 0
        THEN {[n \in 1..Len(draws) |-> c] : c \in NanAsInt}
        ELSE {[n \in 1..Len(draws) |-> Round((extent - 1) * draws[n], max_x)]}

\* generate_scatterers, lines 156 to 160 (x) and 162 to 166 (y), for k >= 1:
\* the index arrays the normalization can give.  x - amin(x) leaves a zero;
\* when its maximum is 0 the division gives nan in every position (numpy
\* warns and goes on) and the cast of nan to int is the platform's; otherwise
\* x / max_x has maximum 1.0, the second division changes nothing and
\* np.around rounds halves to even
normalize(draws, extent) ==
    LET lowest == Min(Range(draws))
        shifted == [n \in 1..Len(draws) |-> draws[n] - lowest]
        max_x == Max(Range(shifted))
    IN  IF max_x = 0
        THEN {[n \in 1..Len(draws) |-> c] : c \in NanAsInt}
        ELSE {[n \in 1..Len(draws) |-> Round((extent - 1) * shifted[n], max_x)]}

\* the scatterers of lines 169 to 175: all positive, all negative, or the
\* first one of amplitude 0
ScattererValues(k) ==
    {[n \in 1..k |-> n], [n \in 1..k |-> 0 - n], [n \in 1..k |-> n - 1]}

\* an index numpy accepts on an axis of the extent: negative ones count from
\* the end
InRange(index, extent) == index >= 0 - extent /\ index < extent
FromStart(index, extent) == IF index < 0 THEN index + extent ELSE index

\* the smallest percentage that gives k scatterers on the grid
PercFor(k, num_of_rows, num_of_cols) ==
    Min({p \in 1..100 : scatterer_count(p, num_of_rows, num_of_cols) = k})

\* configurations of 0 to MaxScatterers scatterers on the grid of the bounds
\* and on a grid of one row
ScatterConfigs ==
    { c \in { Update(Update(Update(FullConfig(d, 1, "effec_scatterers", <<>>), "rows_y", size[1]),
                             "cols_x", size[2]),
                      "perc_of_scatterers", PercFor(k, size[1], size[2])) :
                 d \in {"uniform"}, size \in {<<Rows, Cols>>, <<1, Cols>>}, k \in 0..MaxScatterers }
             \cup { FullConfig(d, PercFor(k, Rows, Cols), "k_wave", <<>>) :
                      d \in {"Gaussian", "rayleigh"}, k \in 0..1 } :
        Accepted(c) }

InitScatter ==
    /\ pc = "new_phantom"
    /\ configuration \in ScatterConfigs
    /\ args = [format |-> {"t"}, verbosity |-> ""]
    /\ error_msg = <<>>
    /\ exception = NoException
    /\ warnings = {}
    /\ slice_z = 0
    /\ generated = <<>>
    /\ fills = <<>>
    /\ files = {}
    /\ call = [fn |-> "none"]
    /\ ret = <<>>
    /\ NoGrids
    /\ NoOutput

\* a slice that goes on with the grids of the Phantom before it
NewPhantom_reused ==
    /\ pc = "new_phantom"
    /\ phantom' = IF phantom = <<>>
                  THEN FilledGrid(configuration["rows_y"], configuration["cols_x"], 0)
                  ELSE phantom
    /\ sound_speed_map' = IF sound_speed_map = <<>>
                          THEN FilledGrid(configuration["rows_y"], configuration["cols_x"],
                                          Get(configuration, "sound_speed_c0_m_per_s", 1540))
                          ELSE sound_speed_map
    /\ density_map' = IF density_map = <<>>
                      THEN FilledGrid(configuration["rows_y"], configuration["cols_x"],
                                      InThirds(Get(configuration, "density_rho0_kg_per_m3", 1000)))
                      ELSE density_map
    /\ writes' = <<>>
    /\ region_i' = 0
    /\ scatter' = NoScatterers
    /\ pc' = "generate_scatterers"
    /\ UNCHANGED <<configuration, args, error_msg, exception, warnings, slice_z,
                   generated, fills, files, call, ret, disk>>

\* gen_phantom, line 163, and generate_phantom_matrix, lines 83 to 95: a new
\* Phantom with a field of zeros and maps of c0 and rho0
NewPhantom ==
    /\ pc = "new_phantom"
    /\ phantom' = FilledGrid(configuration["rows_y"], configuration["cols_x"], 0)
    /\ sound_speed_map' = FilledGrid(configuration["rows_y"], configuration["cols_x"],
                                     Get(configuration, "sound_speed_c0_m_per_s", 1540))
    /\ density_map' = FilledGrid(configuration["rows_y"], configuration["cols_x"],
                                 InThirds(Get(configuration, "density_rho0_kg_per_m3", 1000)))
    /\ writes' = <<>>
    /\ region_i' = 0
    /\ scatter' = NoScatterers
    /\ pc' = "generate_scatterers"
    /\ UNCHANGED <<configuration, args, error_msg, exception, warnings, slice_z,
                   generated, fills, files, call, ret, disk>>

\* generate_scatterers, lines 137 to 154: k and the random draws
DrawScatterers ==
    /\ pc = "generate_scatterers"
    /\ LET k == scatterer_count(configuration["perc_of_scatterers"],
                                configuration["rows_y"], configuration["cols_x"])
       IN  IF Lower(configuration["distribution"]) \notin generated_distributions
           THEN /\ Raise([kind |-> "UnknownDistribution",
                          msgs |-> <<Msg("Unknown distribution defined: ", Lower(configuration["distribution"]))>>])
                /\ UNCHANGED scatter
           ELSE /\ \E xs \in [1..k -> Samples], ys \in [1..k -> Samples], values \in ScattererValues(k) :
                     scatter' = [k |-> k, x |-> xs, y |-> ys, scatterers |-> values, i |-> 0]
                /\ pc' = "normalize"
                /\ UNCHANGED exception
    /\ UNCHANGED <<configuration, args, error_msg, warnings, slice_z,
                   generated, fills, files, call, ret, grid_vars, disk>>

\* generate_scatterers, lines 156 to 166: np.amin of an empty array raises
Normalize ==
    /\ pc = "normalize"
    /\ IF scatter.k = 0
       THEN /\ Raise([kind |-> "ValueError",
                      msgs |-> <<Msg("zero-size array to reduction operation minimum which has no identity", "")>>])
            /\ UNCHANGED scatter
       ELSE /\ \E xs \in normalize(scatter.x, configuration["cols_x"]),
                  ys \in normalize(scatter.y, configuration["rows_y"]) :
                     scatter' = [scatter EXCEPT !.x = xs, !.y = ys]
            /\ pc' = "store"
            /\ UNCHANGED exception
    /\ UNCHANGED <<configuration, args, error_msg, warnings, slice_z,
                   generated, fills, files, call, ret, grid_vars, disk>>

\* generate_scatterers, lines 178 to 182: one iteration of the loop that
\* stores the scatterers
StoreScatterer ==
    /\ pc = "store"
    /\ scatter.i < scatter.k
    /\ LET n == scatter.i + 1
           num_of_cols == configuration["cols_x"]
           num_of_rows == configuration["rows_y"]
       IN  IF ~InRange(scatter.x[n], num_of_cols) \/ ~InRange(scatter.y[n], num_of_rows)
           THEN /\ Raise([kind |-> "IndexError", msgs |-> <<Msg("index is out of bounds", "")>>])
                /\ UNCHANGED <<phantom, scatter>>
           ELSE /\ phantom' = SetCell(phantom, FromStart(scatter.x[n], num_of_cols),
                                      FromStart(scatter.y[n], num_of_rows), scatter.scatterers[n])
                /\ scatter' = [scatter EXCEPT !.i = n]
                /\ UNCHANGED <<pc, exception>>
    /\ UNCHANGED <<configuration, args, error_msg, warnings, slice_z, generated, fills, files,
                   call, ret, sound_speed_map, density_map, writes, region_i, disk>>

\* generate_scatterers returns and generate_phantom_matrix goes on with the
\* regions
EndScatterers ==
    /\ pc = "store"
    /\ scatter.i = scatter.k
    /\ scatter' = NoScatterers
    /\ region_i' = 1
    /\ pc' = "fill_regions"
    /\ UNCHANGED <<configuration, args, error_msg, exception, warnings, slice_z, generated,
                   fills, files, call, ret, phantom, sound_speed_map, density_map, writes, disk>>

NextScatter == NewPhantom \/ DrawScatterers \/ Normalize \/ StoreScatterer \/ EndScatterers

SpecScatter == InitScatter /\ [][NextScatter]_vars

(***************************************************************************)
(* gen_phantom on a configuration without an image: the loop over the       *)
(* slices (a new Phantom, its scatterers, its regions, save_all) and        *)
(* generate_final_output, with the arrays the .mat files hold.  A file of   *)
(* savemat is [name, data]: the name of the array and the array; a 2-D      *)
(* array is arr[y][x] and a volume is the sequence of its slices,           *)
(* volume[i + 1] being volume[:, :, i].                                     *)
(***************************************************************************)
\* np.transpose of grid[x][y]
Transpose(grid) ==
    [y \in DOMAIN grid[0] |-> [x \in DOMAIN grid |-> grid[x][y]]]

\* Phantom.create_mat_file: what savemat writes
create_mat_file(data) == [name |-> "arr", data |-> Transpose(data)]

\* Phantom.save_mat_file: the arrays of the files it writes
save_mat_arrays(postfix, phantom_format, g) ==
    [f \in save_mat_file(postfix, phantom_format) |->
        create_mat_file(IF f.suffix = "" THEN g.phantom
                        ELSE IF f.suffix = "_sound_speed_map" THEN g.sound_speed_map
                        ELSE g.density_map)]

\* the files on disk after the files of `written` were written
Overwrite(on_disk, written) ==
    [f \in (DOMAIN on_disk) \cup (DOMAIN written) |->
        IF f \in DOMAIN written THEN written[f] ELSE on_disk[f]]

\* Phantom.mat_2d_to_3d that stacks every slice in front of the volume
mat_2d_to_3d_prepend(on_disk, postfix, num_of_slices, array_name) ==
    [name |-> array_name,
     data |-> [n \in 1..num_of_slices |-> on_disk[File(<<num_of_slices - n>>, postfix, "mat")].data]]

RECURSIVE mat_2d_to_3d_from(_, _, _, _, _)
\* Phantom.mat_2d_to_3d: the loop of lines 325 to 329 from slice_from on
mat_2d_to_3d_from(on_disk, postfix, slice_from, num_of_slices, volume) ==
    IF slice_from >= num_of_slices
    THEN volume
    ELSE mat_2d_to_3d_from(on_disk, postfix, slice_from + 1, num_of_slices,
                           Append(volume, on_disk[File(<<slice_from>>, postfix, "mat")].data))

\* Phantom.mat_2d_to_3d: what savemat writes, the slice files being on disk
mat_2d_to_3d(on_disk, postfix, num_of_slices, array_name) ==
    [name |-> array_name,
     data |-> mat_2d_to_3d_from(on_disk, postfix, 1, num_of_slices,
                                <<on_disk[File(<<0>>, postfix, "mat")].data>>)]

\* generate_final_output: the array_name given for a postfix
ArrayName(postfix) ==
    IF postfix = "" THEN "phantom"
    ELSE IF postfix = "_sound_speed_map" THEN "sound_speed_map" ELSE "density_map"

RECURSIVE store_scatterers(_, _, _, _, _)
\* generate_scatterers, lines 178 to 182, from scatterer n on: [raised, phantom]
store_scatterers(field, xs, ys, values, n) ==
    IF n > Len(xs)
    THEN [raised |-> NoException, phantom |-> field]
    ELSE IF \/ ~InRange(xs[n], Cardinality(DOMAIN field))
            \/ ~InRange(ys[n], Cardinality(DOMAIN field[0]))
    THEN [raised |-> [kind |-> "IndexError", msgs |-> <<Msg("index is out of bounds", "")>>],
          phantom |-> field]
    ELSE store_scatterers(SetCell(field, FromStart(xs[n], Cardinality(DOMAIN field)),
                                  FromStart(ys[n], Cardinality(DOMAIN field[0])), values[n]),
                          xs, ys, values, n + 1)

\* the draws of the scatterers of a slice: the first scatterer drawn at the
\* low end of both axes and the others at the high end, or the first at the
\* high end of x and the others at its low end
SliceDraws(k) ==
    { [x |-> xs, y |-> [n \in 1..k |-> IF n = 1 THEN 0 ELSE MaxSample],
       scatterers |-> [n \in 1..k |-> n]] :
        xs \in { [n \in 1..k |-> IF n = 1 THEN 0 ELSE MaxSample],
                 [n \in 1..k |-> IF n = 1 THEN MaxSample ELSE 0] } }

\* the lists of regions of the phantoms of several slices, and of one slice
SliceStructureLists ==
    { StackedRegions,
      <<Points(<<<<0, 0>>, <<1, 1>>>>, 2), Sphere("SPHERE", <<1, 2, 1>>, 1, 2)>>,
      <<Sphere("sphere", <<2, 1, MaxDepth - 2>>, 1, 3)>>,
      <<Circle(<<1, 2>>, 1, 3), Points(<<<<0, 0>>, <<1, 1>>>>, 2)>>,
      <<Rectangle("rectangle", <<0, 1>>, 2, 2, 2)>> }

\* configurations of two scatterers per slice
SliceConfigs ==
    { c \in { WithDepth(Update(base, "structures", s), d) :
                base \in { FullConfig("uniform", PercFor(2, Rows, Cols), "effec_scatterers", <<>>),
                           FullConfig("uniform", PercFor(2, Rows, Cols), "k_wave", <<>>),
                           Update(FullConfig("Gaussian", PercFor(2, Rows, Cols), "K_Wave", <<>>),
                                  "sound_speed_c0_m_per_s", 1450) },
                s \in SliceStructureLists, d \in {1, MaxDepth} } :
        Accepted(c) }

InitSlices ==
    /\ pc = "new_phantom"
    /\ configuration \in SliceConfigs
    /\ args \in [format : {{"m"}, {"t", "p"}, {"t", "m", "p"}}, verbosity : {""}]
    /\ error_msg = <<>>
    /\ exception = NoException
    /\ warnings = {}
    /\ slice_z = 0
    /\ generated = <<>>
    /\ fills = <<>>
    /\ files = {}
    /\ call = [fn |-> "none"]
    /\ ret = <<>>
    /\ NoGrids
    /\ NoOutput

\* the call of generate_scatterers at line 97, as one step
GenerateScatterers ==
    /\ pc = "generate_scatterers"
    /\ LET k == scatterer_count(configuration["perc_of_scatterers"],
                                configuration["rows_y"], configuration["cols_x"])
       IN  IF Lower(configuration["distribution"]) \notin generated_distributions
           THEN /\ Raise([kind |-> "UnknownDistribution",
                          msgs |-> <<Msg("Unknown distribution defined: ", Lower(configuration["distribution"]))>>])
                /\ UNCHANGED <<phantom, region_i>>
           ELSE IF k = 0
           THEN /\ Raise([kind |-> "ValueError",
                          msgs |-> <<Msg("zero-size array to reduction operation minimum which has no identity", "")>>])
                /\ UNCHANGED <<phantom, region_i>>
           ELSE \E draws \in SliceDraws(k) :
                  \E xs \in normalize(draws.x, configuration["cols_x"]),
                     ys \in normalize(draws.y, configuration["rows_y"]) :
                     LET stored == store_scatterers(phantom, xs, ys, draws.scatterers, 1)
                     IN  /\ phantom' = stored.phantom
                         /\ IF stored.raised # NoException
                            THEN Raise(stored.raised) /\ UNCHANGED region_i
                            ELSE /\ pc' = "fill_regions"
                                 /\ region_i' = 1
                                 /\ UNCHANGED exception
    /\ UNCHANGED <<configuration, args, error_msg, warnings, slice_z, generated, fills, files,
                   call, ret, sound_speed_map, density_map, writes, io_vars>>

\* gen_phantom, lines 157 to 166: save_all on the slice, and the loop goes on
SaveAll ==
    /\ pc = "filled"
    /\ LET num_of_z == Get(configuration, "depth_z", 1)
           postfix == IF num_of_z = 1 THEN <<>> ELSE <<slice_z>>
           phantom_format == Lower(configuration["phantom_format"])
       IN  /\ files' = files \cup save_all(args.format, postfix, phantom_format)
           /\ disk' = IF "m" \in args.format
                      THEN Overwrite(disk, save_mat_arrays(postfix, phantom_format, Grids))
                      ELSE disk
           /\ pc' = IF slice_z + 1 < num_of_z THEN "new_phantom" ELSE "final_output"
    /\ generated' = Append(generated, slice_z)
    /\ slice_z' = slice_z + 1
    /\ UNCHANGED <<configuration, args, error_msg, exception, warnings, fills, call, ret,
                   grid_vars, scatter>>

\* gen_phantom, lines 168 and 169: generate_final_output
FinalOutput ==
    /\ pc = "final_output"
    /\ LET out == generate_final_output(configuration, files)
       IN  /\ files' = files \cup out.written
           /\ disk' = Overwrite(disk, [f \in out.written |->
                                         mat_2d_to_3d(disk, f.suffix, Get(configuration, "depth_z", 1),
                                                      ArrayName(f.suffix))])
           /\ IF out.raised # NoException
              THEN Raise(out.raised)
              ELSE pc' = "done" /\ UNCHANGED exception
    /\ UNCHANGED <<configuration, args, error_msg, warnings, slice_z, generated, fills, call, ret,
                   grid_vars, scatter>>

NextSlices ==
    \/ NewPhantom
    \/ GenerateScatterers
    \/ FillCircle
    \/ FillSphere
    \/ FillRectangle
    \/ FillPolygon
    \/ FillPoints
    \/ EndFill
    \/ SaveAll
    \/ FinalOutput

SpecSlices == InitSlices /\ [][NextSlices]_vars

(***************************************************************************)
(* Point.in_polygon applied on its own, as TestInPolygon applies it.  The  *)
(* vertices have even coordinates and the points any integer coordinates,  *)
(* so that a point can lie between two neighbouring vertices.              *)
(***************************************************************************)
PolyVertices == {<<2 * a, 2 * b>> : a \in 0..MaxVertex, b \in 0..MaxVertex}
PolyPoints == (-1..(2 * MaxVertex + 1)) \X (-1..(2 * MaxVertex + 1))

\* twice the signed area of the triangle a, b, c
Cross(a, b, c) == (b[1] - a[1]) * (c[2] - a[2]) - (b[2] - a[2]) * (c[1] - a[1])

\* the vertex after polygon[i], the first one after the last
NextVertex(polygon, i) == polygon[(i % Len(polygon)) + 1]

\* every turn of the polygon is a strict turn to the same side
IsConvex(polygon) ==
    /\ Len(polygon) >= 3
    /\ \/ \A i \in 1..Len(polygon) :
             Cross(polygon[i], NextVertex(polygon, i), NextVertex(polygon, i + 1)) > 0
       \/ \A i \in 1..Len(polygon) :
             Cross(polygon[i], NextVertex(polygon, i), NextVertex(polygon, i + 1)) < 0

\* every triangle, flat ones included, and every convex quadrilateral
Polygons ==
    [1..3 -> PolyVertices] \cup {q \in [1..4 -> PolyVertices] : IsConvex(q)}

InitPolygon ==
    /\ pc = "call"
    /\ call \in [fn : {"Point.in_polygon"}, point : PolyPoints, polygon : Polygons]
    /\ ret = <<>>
    /\ configuration = [verbose |-> FALSE]
    /\ args = [format |-> {"t"}, verbosity |-> ""]
    /\ error_msg = <<>>
    /\ exception = NoException
    /\ warnings = {}
    /\ slice_z = 0
    /\ generated = <<>>
    /\ fills = <<>>
    /\ files = {}
    /\ NoGrids
    /\ NoOutput

CallInPolygon ==
    /\ pc = "call" /\ call.fn = "Point.in_polygon"
    /\ Return(in_polygon(call.point, call.polygon))
    /\ UNCHANGED warnings

NextPolygon == CallInPolygon

SpecPolygon == InitPolygon /\ [][NextPolygon]_vars

(***************************************************************************)
(* Properties                                                              *)
(***************************************************************************)
NothingGenerated == generated = <<>> /\ fills = <<>> /\ files = {}

ReturnsEmptyReport(config) ==
    LET v == validate_configuration(config)
    IN  v.raised = NoException /\ v.report = <<>>

\* validate_configuration has returned a report (it did not raise) for a
\* configuration without an image
ReportReturned ==
    /\ pc # "parse_config"
    /\ ~IsImage(configuration)
    /\ exception.kind \notin {"MissingParameter", "KeyError"}

\* C1: generation, region fills and save_all happen only after
\* validate_configuration returned the empty report: before parse_config ended,
\* and whenever validation raised or reported an error, no slice was generated,
\* no region was filled and no file was written; and whenever something was
\* generated or written, the configuration is one that validates cleanly.
C1_GenerationOnlyAfterValidation ==
    /\ pc = "parse_config" => NothingGenerated
    /\ exception.kind \in {"MissingParameter", "KeyError", "ImageNotFound", "ValidationError"}
          => NothingGenerated
    /\ ~NothingGenerated => ReturnsEmptyReport(configuration)

C1_Witness ==
    /\ pc = "done"
    /\ generated # <<>> /\ fills # <<>> /\ files # {}

\* C2 (as claimed): for a configuration with all required keys the report
\* holds a message for every failing check: the distribution, the percentage,
\* the format, and what every region of the list yields on its own, whatever
\* comes before or after it.
C2_EveryFailureReported ==
    ReportReturned =>
        /\ Lower(configuration["distribution"]) \notin {"uniform", "gaussian", "rayleigh"}
              => DistributionMsg(Lower(configuration["distribution"])) \in Range(error_msg)
        /\ (configuration["perc_of_scatterers"] <= 0 \/ configuration["perc_of_scatterers"] > 100)
              => PercMsg \in Range(error_msg)
        /\ Lower(configuration["phantom_format"]) \notin {"effec_scatterers", "k_wave"}
              => FormatMsg(Lower(configuration["phantom_format"])) \in Range(error_msg)
        /\ \A i \in 1..Len(configuration["structures"]) :
              Range(validate_region(<<>>, configuration["structures"][i],
                                    configuration["rows_y"], configuration["cols_x"],
                                    Get(configuration, "depth_z", 1)))
                 \subseteq Range(error_msg)

RequiredKeys == {"rows_y", "cols_x", "distribution", "perc_of_scatterers", "phantom_format"}
KWaveKeys == {"sound_speed_c0_m_per_s", "density_rho0_kg_per_m3"}

AbsentKeys(config) ==
    (RequiredKeys \ DOMAIN config)
    \cup (IF Has(config, "phantom_format") /\ config["phantom_format"] = "k_wave"
          THEN KWaveKeys \ DOMAIN config
          ELSE {})

\* C3: when required keys are absent from a configuration without an image,
\* validate_configuration raises one missing-parameter exception whose message
\* names every absent key among the five required ones and, when phantom_format
\* is k_wave, every absent key among the two k_wave ones, and nothing else: no
\* value or region check was made (no report, no warning).
C3_MissingKeysAllNamed ==
    (pc # "parse_config" /\ ~IsImage(configuration) /\ AbsentKeys(configuration) # {}) =>
        /\ exception.kind = "MissingParameter"
        /\ Range(exception.msgs) =
              {MissingHeaderMsg} \cup {MissingMsg(k) : k \in AbsentKeys(configuration)}
        /\ Len(exception.msgs) = 1 + Cardinality(AbsentKeys(configuration))
        /\ exception.msgs[1] = MissingHeaderMsg
        /\ error_msg = <<>>
        /\ warnings = {}

C3_Witness ==
    /\ pc = "raised"
    /\ exception.kind = "MissingParameter"
    /\ Has(configuration, "phantom_format") /\ configuration["phantom_format"] = "k_wave"
    /\ AbsentKeys(configuration) = {"rows_y", "sound_speed_c0_m_per_s"}
    /\ MissingMsg("rows_y") \in Range(exception.msgs)
    /\ MissingMsg("sound_speed_c0_m_per_s") \in Range(exception.msgs)

UnsupportedKinds == {"UnknownStructure", "UnknownDistribution"}

\* C4: no run ends with an unsupported-value error of the generator; for every
\* configuration that validates cleanly no slice can raise one; the region
\* types accepted by validate_structures are those dispatched by
\* generate_phantom_matrix and the distributions accepted by
\* validate_distribution are those handled by generate_scatterers.
C4_NoUnsupportedValueAfterValidation ==
    /\ exception.kind \notin UnsupportedKinds
    /\ (~IsImage(configuration) /\ ReturnsEmptyReport(configuration)) =>
          \A z \in 0..MaxDepth :
             \A g \in generate_phantom_matrix(configuration, z) :
                g.raised.kind \notin UnsupportedKinds
    /\ supported_structures = dispatched_structures
    /\ supported_distributions = generated_distributions

C4_Witness ==
    /\ pc = "done"
    /\ configuration["distribution"] = "Gaussian"
    /\ \E i \in 1..Len(configuration["structures"]) :
          configuration["structures"][i]["type"] = "SPHERE"
    /\ <<"sphere", 0>> \in Range(fills)
    /\ Len(generated) = MaxDepth

InGrid(p, num_of_rows, num_of_cols) ==
    /\ 0 <= p[1] /\ p[1] <= num_of_cols - 1
    /\ 0 <= p[2] /\ p[2] <= num_of_rows - 1

\* C5: Structure.validate returns the empty string if and only if every point
\* has 0 <= x <= num_of_cols - 1 and 0 <= y <= num_of_rows - 1.
C5_PointsValidIffInGrid ==
    (pc = "returned" /\ call.fn = "Structure.validate") =>
        (ret = <<>> <=>
            \A i \in 1..Len(call.origins) :
               InGrid(call.origins[i], call.num_of_rows, call.num_of_cols))

\* the far corner and the origin of a grid that is not square are accepted
C5_Witness ==
    /\ pc = "returned" /\ call.fn = "Structure.validate"
    /\ call.num_of_rows # call.num_of_cols
    /\ call.origins = <<<<call.num_of_cols - 1, call.num_of_rows - 1>>, <<0, 0>>>>
    /\ ret = <<>>

\* C6: Rectangle.validate returns an error if and only if width <= 0, or
\* height <= 0, or left < 0, or top < 0, or left + width > num_of_cols - 1, or
\* top + height > num_of_rows - 1.
C6_RectangleErrorIff ==
    (pc = "returned" /\ call.fn = "Rectangle.validate") =>
        (ret # <<>> <=>
            \/ call.horizontal_length <= 0
            \/ call.vertical_length <= 0
            \/ call.top_left_corner[1] < 0
            \/ call.top_left_corner[2] < 0
            \/ call.top_left_corner[1] + call.horizontal_length > call.num_of_cols - 1
            \/ call.top_left_corner[2] + call.vertical_length > call.num_of_rows - 1)

\* the largest rectangle at (0, 0) of a grid that is not square is accepted
C6_Witness ==
    /\ pc = "returned" /\ call.fn = "Rectangle.validate"
    /\ call.num_of_rows # call.num_of_cols
    /\ call.top_left_corner = <<0, 0>>
    /\ call.horizontal_length = call.num_of_cols - 1
    /\ call.vertical_length = call.num_of_rows - 1
    /\ ret = <<>>

OutOfAxis(centre, radius, extent) == centre - radius < 0 \/ centre + radius > extent - 1

\* C7: Circle.validate and Sphere.validate return an error if and only if
\* radius <= 0 or, on a checked axis (x against columns, y against rows, and
\* for Sphere z against the slice count), centre - radius < 0 or
\* centre + radius > extent - 1; with radius <= 0 the error is the radius one.
C7_CircleSphereErrorIff ==
    /\ (pc = "returned" /\ call.fn = "Circle.validate") =>
          LET out == \/ OutOfAxis(call.center[1], call.radius, call.num_of_cols)
                     \/ OutOfAxis(call.center[2], call.radius, call.num_of_rows)
          IN  /\ ret # <<>> <=> (call.radius <= 0 \/ out)
              /\ call.radius <= 0 => ret = <<CircleRadiusMsg>>
              /\ (call.radius > 0 /\ out) => ret = <<CircleOutOfBoundsMsg>>
    /\ (pc = "returned" /\ call.fn = "Sphere.validate") =>
          LET out == \/ OutOfAxis(call.center[1], call.radius, call.num_of_cols)
                     \/ OutOfAxis(call.center[2], call.radius, call.num_of_rows)
                     \/ OutOfAxis(call.center[3], call.radius, call.num_of_z)
          IN  /\ ret # <<>> <=> (call.radius <= 0 \/ out)
              /\ call.radius <= 0 => ret = <<SphereRadiusMsg>>
              /\ (call.radius > 0 /\ out) => ret = <<SphereOutOfBoundsMsg>>

\* a sphere out of bounds on the z axis only
C7_Witness ==
    /\ pc = "returned" /\ call.fn = "Sphere.validate"
    /\ call.radius = 1 /\ call.center = <<1, 1, 0>>
    /\ ~OutOfAxis(1, 1, call.num_of_cols) /\ ~OutOfAxis(1, 1, call.num_of_rows)
    /\ ret = <<SphereOutOfBoundsMsg>>

SupportedRegion(region) ==
    Lower(region["type"]) \in {"circle", "rectangle", "free_polygon", "points", "sphere"}

\* C8 (as claimed): for every region of a supported type the report of
\* validate_structures holds the gain message of its type if and only if a
\* region of that type has scat_gain < 0, whatever the geometry: a region with a
\* negative gain and an invalid geometry yields both messages.
C8_GainReportedIffNegative ==
    ReportReturned =>
        \A i \in 1..Len(configuration["structures"]) :
           LET region == configuration["structures"][i]
               alone == validate_region(<<>>, region, configuration["rows_y"],
                                        configuration["cols_x"], Get(configuration, "depth_z", 1))
           IN  SupportedRegion(region) =>
                 /\ GainMsg(region["type"]) \in Range(error_msg) <=>
                       \E j \in 1..Len(configuration["structures"]) :
                          /\ configuration["structures"][j]["type"] = region["type"]
                          /\ configuration["structures"][j]["scat_gain"] < 0
                 /\ (region["scat_gain"] < 0 /\ Len(alone) = 2) =>
                       Range(alone) \subseteq Range(error_msg)

\* C9: validate_perc_of_scat returns an error if and only if the percentage is
\* <= 0 or > 100; 100 returns the empty string and only warns; a value strictly
\* between 0 and 100 returns the empty string without a warning.
C9_PercErrorIffOutOfRange ==
    (pc = "returned" /\ call.fn = "validate_perc_of_scat") =>
        /\ ret # <<>> <=> (call.perc_of_scatterers <= 0 \/ call.perc_of_scatterers > 100)
        /\ call.perc_of_scatterers = 100 => (ret = <<>> /\ warnings = {PercWarning})
        /\ (0 < call.perc_of_scatterers /\ call.perc_of_scatterers < 100)
              => (ret = <<>> /\ warnings = {})

C9_Witness ==
    /\ pc = "returned" /\ call.fn = "validate_perc_of_scat"
    /\ call.perc_of_scatterers = 100
    /\ ret = <<>> /\ warnings = {PercWarning}

\* C10: for a configuration without an image and with all required keys, the
\* report holds "effec_scatterers only supports 2-D phantoms" if and only if
\* depth_z > 1 and the lower-cased phantom_format is effec_scatterers; the
\* message is followed in the report by what validate_structures returns.
C10_Only2DIff ==
    ReportReturned =>
        LET only_2d == /\ Get(configuration, "depth_z", 1) > 1
                       /\ Lower(configuration["phantom_format"]) = "effec_scatterers"
            regions == validate_structures(configuration["structures"], configuration["rows_y"],
                                           configuration["cols_x"], Get(configuration, "depth_z", 1))
        IN  /\ Only2DMsg \in Range(error_msg) <=> only_2d
            /\ only_2d =>
                  \E i \in 1..Len(error_msg) :
                     /\ error_msg[i] = Only2DMsg
                     /\ SubSeq(error_msg, i + 1, Len(error_msg)) = regions

C10_Witness ==
    /\ pc = "raised" /\ exception.kind = "ValidationError"
    /\ configuration["phantom_format"] = "Effec_Scatterers"
    /\ Get(configuration, "depth_z", 1) = 2
    /\ Only2DMsg \in Range(error_msg)
    /\ error_msg[Len(error_msg)] = RectangleOutOfBoundsMsg

\* the side of the polygon's interior: 1 when it turns left, -1 when right
Orientation(polygon) ==
    IF Cross(polygon[1], polygon[2], polygon[3]) > 0 THEN 1 ELSE -1

\* the point is on the interior side of every edge of a convex polygon
StrictlyInside(point, polygon) ==
    \A i \in 1..Len(polygon) :
       Cross(polygon[i], NextVertex(polygon, i), point) * Orientation(polygon) > 0

\* the point is on the exterior side of an edge of a convex polygon
StrictlyOutside(point, polygon) ==
    \E i \in 1..Len(polygon) :
       Cross(polygon[i], NextVertex(polygon, i), point) * Orientation(polygon) < 0

\* the edges, each from a vertex to the next and from the last to the first,
\* that straddle the point's y and meet that y strictly right of the point
CrossingEdges(point, polygon) ==
    { i \in 1..Len(polygon) :
        LET a == polygon[i]
            b == NextVertex(polygon, i)
        IN  /\ (a[2] > point[2]) # (b[2] > point[2])
            /\ RightOfPoint(point[1], point[2], a, b) }

\* C11: for every convex polygon with integer vertices, in either orientation,
\* Point.in_polygon returns true for a point strictly inside and false for a
\* point strictly outside; for every polygon its result is the parity of the
\* number of edges, the one from the last vertex to the first included, that
\* straddle the point's y and cross it strictly right of the point.
C11_InPolygonInsideOutside ==
    (pc = "returned" /\ call.fn = "Point.in_polygon") =>
        /\ ret = (Cardinality(CrossingEdges(call.point, call.polygon)) % 2 = 1)
        /\ IsConvex(call.polygon) =>
              /\ StrictlyInside(call.point, call.polygon) => ret = TRUE
              /\ StrictlyOutside(call.point, call.polygon) => ret = FALSE

\* a point between the vertices of a quadrilateral that turns right
C11_Witness ==
    /\ pc = "returned" /\ call.fn = "Point.in_polygon"
    /\ Len(call.polygon) = 4 /\ IsConvex(call.polygon)
    /\ Orientation(call.polygon) = -1
    /\ call.point = <<1, 3>>
    /\ StrictlyInside(call.point, call.polygon)
    /\ ret = TRUE

\* C12: Point.in_polygon returns false for every point whose x is greater than
\* or equal to the largest vertex x of the polygon, so for every point on a
\* vertical right-hand edge.
C12_FalseAtLargestX ==
    (pc = "returned" /\ call.fn = "Point.in_polygon") =>
        ((\A i \in 1..Len(call.polygon) : call.point[1] >= call.polygon[i][1])
            => ret = FALSE)

\* the middle of the right-hand edge of the rectangle of
\* test_boundary_point__return_false, at the scale of the model
C12_Witness ==
    /\ pc = "returned" /\ call.fn = "Point.in_polygon"
    /\ call.polygon = <<<<0, 0>>, <<0, 2>>, <<4, 2>>, <<4, 0>>>>
    /\ call.point = <<4, 1>>
    /\ ret = FALSE

\* the cells of the grids of the slice
GridCells == (0..(configuration["cols_x"] - 1)) \X (0..(configuration["rows_y"] - 1))

\* the region the loop of generate_phantom_matrix is at
Region == configuration["structures"][region_i]

\* the calls of fill_structure made by the step
NewWrites == SubSeq(writes', Len(writes) + 1, Len(writes'))

\* the number of calls of fill_structure on the cell among `w`
WritesAt(w, cell) ==
    Cardinality({i \in 1..Len(w) : w[i][1] = cell[1] /\ w[i][2] = cell[2]})

\* the step multiplies the field by the gain in exactly the cells of the
\* footprint, with one call of fill_structure per cell, and in no other cell
ScalesExactly(footprint, scat_gain) ==
    /\ \A cell \in GridCells :
          IF cell \in footprint
          THEN /\ phantom'[cell[1]][cell[2]] = phantom[cell[1]][cell[2]] * scat_gain
               /\ WritesAt(NewWrites, cell) = 1
          ELSE /\ phantom'[cell[1]][cell[2]] = phantom[cell[1]][cell[2]]
               /\ WritesAt(NewWrites, cell) = 0
    /\ Len(NewWrites) = Cardinality(footprint)
    /\ \A i \in 1..Len(NewWrites) : NewWrites[i][3] = scat_gain

RectangleCells(top_left, w, h) ==
    { cell \in GridCells :
        /\ top_left[1] <= cell[1] /\ cell[1] < top_left[1] + w
        /\ top_left[2] <= cell[2] /\ cell[2] < top_left[2] + h }

\* the cells of the scanned square within the radius, dz slices from the centre
BallCells(centre, r, dz) ==
    { cell \in GridCells :
        /\ centre[1] - r <= cell[1] /\ cell[1] < centre[1] + r
        /\ centre[2] - r <= cell[2] /\ cell[2] < centre[2] + r
        /\ (cell[1] - centre[1]) * (cell[1] - centre[1])
           + (cell[2] - centre[2]) * (cell[2] - centre[2]) + dz * dz <= r * r }

PolygonCells(vertices) == { cell \in GridCells : in_polygon(cell, vertices) }

\* C13: for every Rectangle that passes validation, fill_area multiplies by the
\* gain exactly the cells (x, y) with l <= x < l + w and t <= y < t + h, each
\* once: w * h cells.
C13_RectangleFillsHalfOpenBox ==
    [][AtRegion("rectangle") =>
          LET cells == RectangleCells(Region["top_left_corner_xy"], Region["length_x"], Region["length_y"])
          IN  /\ ScalesExactly(cells, Region["scat_gain"])
              /\ Len(NewWrites) = Region["length_x"] * Region["length_y"]]_vars

\* the rectangle of test_fill_rectangle__only_specified_points_filled: 12 cells
C13_Witness ==
    /\ pc = "filled"
    /\ configuration["structures"] = <<Rectangle("rectangle", <<5, 5>>, 4, 3, 7)>>
    /\ Len(writes) = 12
    /\ Cardinality({cell \in GridCells : phantom[cell[1]][cell[2]] = 7}) = 12
    /\ phantom[5][5] = 7 /\ phantom[8][7] = 7
    /\ phantom[9][5] = 1 /\ phantom[5][8] = 1

\* C14: for every Circle with radius >= 1 that passes validation, fill_area
\* multiplies by the gain exactly the cells (x, y) with cx - r <= x < cx + r,
\* cy - r <= y < cy + r and (x - cx)^2 + (y - cy)^2 <= r^2, each once.
C14_CircleFillsScannedDisc ==
    [][AtRegion("circle") =>
          ScalesExactly(BallCells(Region["center_xy"], Region["radius"], 0), Region["scat_gain"])]_vars

\* the circle of test_fill_circle__only_specified_points_filled: 79 cells, the
\* leftmost of the disc among them and the rightmost not
C14_Witness ==
    /\ pc = "filled"
    /\ configuration["structures"] = <<Circle(<<10, 8>>, 5, 7)>>
    /\ Len(writes) = 79
    /\ Cardinality({cell \in GridCells : phantom[cell[1]][cell[2]] = 7}) = 79
    /\ phantom[5][8] = 7 /\ phantom[15][8] = 1

\* C15: for every Polygon with vertices inside the grid, fill_area multiplies
\* by the gain exactly the cells of the grid that Point.in_polygon accepts,
\* each once: its scan omits none of them.
C15_PolygonFillsInPolygonCells ==
    [][AtRegion("free_polygon") =>
          ScalesExactly(PolygonCells(Region["vertices_xy"]), Region["scat_gain"])]_vars

\* the triangle of test_fill_triangle__only_specified_points_filled: 12 cells
C15_Witness ==
    /\ pc = "filled"
    /\ configuration["structures"] = <<FreePolygon(<<<<5, 0>>, <<9, 4>>, <<0, 4>>>>, 7)>>
    /\ Len(writes) = 12
    /\ Cardinality({cell \in GridCells : phantom[cell[1]][cell[2]] = 7}) = 12

RECURSIVE Pow(_, _)
Pow(b, n) == IF n = 0 THEN 1 ELSE b * Pow(b, n - 1)

\* the number of times the cell is listed
TimesListed(coordinates, cell) ==
    Cardinality({i \in 1..Len(coordinates) : coordinates[i] = cell})

\* C16 (as claimed): after one fill of a SinglePoint every listed cell holds
\* the gain if it was zero before and (previous value) * gain otherwise, and
\* with gain > 0 it is non-zero.
C16_ListedCellHoldsGain ==
    [][AtRegion("points") =>
          \A i \in 1..Len(Region["coordinates_xy"]) :
             LET x == Region["coordinates_xy"][i][1]
                 y == Region["coordinates_xy"][i][2]
             IN  /\ phantom'[x][y] = IF phantom[x][y] = 0 THEN Region["scat_gain"]
                                     ELSE phantom[x][y] * Region["scat_gain"]
                 /\ Region["scat_gain"] > 0 => phantom'[x][y] # 0]_vars

\* C16 (amended): SinglePoint.fill_area calls fill_structure once per listed
\* point, in the order of the list, after setting a zero value at the point
\* to 1: a cell listed n times holds gain^n if it was zero before and
\* (previous value) * gain^n otherwise (so gain, or (previous value) * gain,
\* when it is listed once), no other cell changes, and with gain > 0 every
\* listed cell is non-zero afterwards.
C16_PointsSeededThenScaled ==
    [][AtRegion("points") =>
          LET coordinates == Region["coordinates_xy"]
              scat_gain == Region["scat_gain"]
          IN  /\ NewWrites = [k \in 1..Len(coordinates) |->
                                <<coordinates[k][1], coordinates[k][2], scat_gain>>]
              /\ \A cell \in GridCells :
                    LET n == TimesListed(coordinates, cell)
                        before == phantom[cell[1]][cell[2]]
                        after == phantom'[cell[1]][cell[2]]
                    IN  /\ n = 0 => after = before
                        /\ n > 0 => after = (IF before = 0 THEN 1 ELSE before) * Pow(scat_gain, n)
                        /\ (n > 0 /\ scat_gain > 0) => after # 0]_vars

\* a point listed twice where the field was zero: it holds the gain squared
C16_Witness ==
    /\ pc = "filled"
    /\ configuration["structures"] = <<Points(<<<<0, 0>>, <<0, 0>>>>, 3)>>
    /\ writes = <<<<0, 0, 3>>, <<0, 0, 3>>>>
    /\ phantom[0][0] = 9
    /\ phantom[1][1] = 0 /\ phantom[0][1] = 1

\* the number of fills of the type logged for the slice
FillsOf(region_type, slice) ==
    Cardinality({i \in 1..Len(fills) : fills[i] = <<region_type, slice>>})

RegionsOf(region_type) ==
    Cardinality({i \in 1..Len(configuration["structures"]) :
                   Lower(configuration["structures"][i]["type"]) = region_type})

\* C17: for every Sphere and every slice index z, Sphere.fill_volume
\* multiplies by the gain exactly the cells (x, y) of the slice with
\* cx - r <= x < cx + r, cy - r <= y < cy + r and
\* (x - cx)^2 + (y - cy)^2 + (z - cz)^2 <= r^2; generate_phantom_matrix calls
\* it once per sphere region, with the index of the slice it generates.
C17_SphereFillsSliceOfBall ==
    [][/\ AtRegion("sphere") =>
             /\ ScalesExactly(BallCells(Region["center_xyz"], Region["radius"],
                                        slice_z - Region["center_xyz"][3]),
                              Region["scat_gain"])
             /\ fills' = Append(fills, <<"sphere", slice_z>>)
       /\ (pc = "fill_regions" /\ pc' = "filled") =>
             /\ FillsOf("sphere", slice_z) = RegionsOf("sphere")
             /\ \A i \in 1..Len(fills) : fills[i][2] = slice_z]_vars

\* the slice under the centre of a sphere of radius 1: its centre cell only
C17_Witness ==
    /\ pc = "filled"
    /\ configuration["structures"] = <<Sphere("sphere", <<1, 2, 1>>, 1, 2)>>
    /\ slice_z = 0
    /\ writes = <<<<1, 2, 2>>>>
    /\ fills = <<<<"sphere", 0>>>>

Clamp(v, low, high) == IF v < low THEN low ELSE IF v > high THEN high ELSE v

\* C18: in k_wave mode, after any sequence of fills on a slice, every cell
\* touched by a fill has sound_speed_map = clamp(c0 + 25 + 75 * |field value|,
\* 1400, 1600), the field value being the one the last fill left, and
\* density_map = that sound speed / 1.5; every other cell holds the baseline
\* sound speed and the baseline density.
C18_KWaveMapsFollowField ==
    (pc \in {"fill_regions", "filled"} /\ Lower(configuration["phantom_format"]) = "k_wave") =>
        \A cell \in GridCells :
           LET c0 == Get(configuration, "sound_speed_c0_m_per_s", 1540)
               rho0 == Get(configuration, "density_rho0_kg_per_m3", 1000)
               speed == sound_speed_map[cell[1]][cell[2]]
               density == density_map[cell[1]][cell[2]]
           IN  IF WritesAt(writes, cell) > 0
               THEN /\ speed = Clamp(c0 + 25 + 75 * Abs(phantom[cell[1]][cell[2]]), 1400, 1600)
                    /\ 1400 <= speed /\ speed <= 1600
                    /\ 15 * density = InThirds(10 * speed)
               ELSE /\ speed = c0
                    /\ density = InThirds(rho0)

\* a touched cell at the lower limit, one at the upper limit, one untouched
C18_Witness ==
    /\ pc = "filled"
    /\ configuration["phantom_format"] = "k_wave"
    /\ configuration["sound_speed_c0_m_per_s"] = 1300
    /\ \E a \in GridCells, b \in GridCells, c \in GridCells :
          /\ WritesAt(writes, a) > 0 /\ phantom[a[1]][a[2]] = 0
          /\ sound_speed_map[a[1]][a[2]] = 1400
          /\ WritesAt(writes, b) > 0 /\ sound_speed_map[b[1]][b[2]] = 1600
          /\ 3 * density_map[b[1]][b[2]] = 2 * InThirds(1600)
          /\ WritesAt(writes, c) = 0 /\ sound_speed_map[c[1]][c[2]] = 1300

\* the cells a fill of the region may change, in the slice
Footprint(region, slice) ==
    LET region_type == Lower(region["type"])
    IN  CASE region_type = "circle" -> BallCells(region["center_xy"], region["radius"], 0)
          [] region_type = "sphere" ->
                BallCells(region["center_xyz"], region["radius"], slice - region["center_xyz"][3])
          [] region_type = "rectangle" ->
                RectangleCells(region["top_left_corner_xy"], region["length_x"], region["length_y"])
          [] region_type = "free_polygon" -> PolygonCells(region["vertices_xy"])
          [] region_type = "points" -> Range(region["coordinates_xy"])

\* C19: a region fill changes no cell outside the region's footprint in the
\* field, the sound-speed map and the density map, and when phantom_format is
\* not k_wave it changes no cell of the two maps.
C19_FillStaysInFootprint ==
    [][(pc = "fill_regions" /\ region_i <= Len(configuration["structures"])) =>
          /\ \A cell \in GridCells \ Footprint(Region, slice_z) :
                /\ phantom'[cell[1]][cell[2]] = phantom[cell[1]][cell[2]]
                /\ sound_speed_map'[cell[1]][cell[2]] = sound_speed_map[cell[1]][cell[2]]
                /\ density_map'[cell[1]][cell[2]] = density_map[cell[1]][cell[2]]
          /\ Lower(configuration["phantom_format"]) # "k_wave" =>
                /\ sound_speed_map' = sound_speed_map
                /\ density_map' = density_map]_vars

\* an effec_scatterers fill: the field changed inside the rectangle, not
\* beside it, and the maps hold their baselines
C19_Witness ==
    /\ pc = "filled"
    /\ configuration["phantom_format"] = "effec_scatterers"
    /\ configuration["structures"] = <<Rectangle("rectangle", <<1, 2>>, 2, 1, 0)>>
    /\ phantom[1][2] = 0 /\ phantom[2][2] = 0
    /\ phantom[0][2] = 1 /\ phantom[3][2] = -2
    /\ sound_speed_map = FilledGrid(Rows, Cols, 1540)
    /\ density_map = FilledGrid(Rows, Cols, InThirds(1000))

RECURSIVE GainProduct(_, _, _, _)
\* the product of the gains of those of the first k regions whose footprint
\* holds the cell
GainProduct(structures, footprints, k, cell) ==
    IF k = 0
    THEN 1
    ELSE GainProduct(structures, footprints, k - 1, cell)
         * (IF cell \in footprints[k] THEN structures[k]["scat_gain"] ELSE 1)

RECURSIVE GainTrail(_, _, _)
\* the gains of the calls of fill_structure of the first k regions, region
\* after region
GainTrail(structures, footprints, k) ==
    IF k = 0
    THEN <<>>
    ELSE GainTrail(structures, footprints, k - 1)
         \o [j \in 1..Cardinality(footprints[k]) |-> structures[k]["scat_gain"]]

\* C20: generate_phantom_matrix fills the regions in the order of the
\* configuration and every fill multiplies the value it finds: after circle,
\* rectangle, polygon and sphere fills a cell holds its scatterer value times
\* the product of the gains of the fills that covered it, so a region given
\* twice scales its footprint by the gain squared.
C20_GainsCompoundInOrder ==
    (pc \in {"fill_regions", "filled"}
     /\ \A i \in 1..Len(configuration["structures"]) :
           Lower(configuration["structures"][i]["type"]) # "points") =>
        LET structures == configuration["structures"]
            done == region_i - 1
            footprints == [k \in 1..done |-> Footprint(structures[k], slice_z)]
            product == [cell \in GridCells |-> GainProduct(structures, footprints, done, cell)]
        IN  /\ fills = [i \in 1..done |-> <<Lower(structures[i]["type"]), slice_z>>]
            /\ [k \in 1..Len(writes) |-> writes[k][3]] = GainTrail(structures, footprints, done)
            /\ \E pattern \in FieldPatterns :
                  \A cell \in GridCells :
                     phantom[cell[1]][cell[2]] = pattern[((cell[1] + cell[2]) % 2) + 1] * product[cell]

\* a cell under the circle given twice, the rectangle, the polygon and the
\* sphere: 3 * 3 * 2 * 5 * 7 times its scatterer
C20_Witness ==
    /\ pc = "filled"
    /\ configuration["structures"] = <<StackedRegions[1]>> \o StackedRegions
    /\ slice_z = 1
    /\ phantom[3][1] = 0 /\ phantom[3][0] = 1
    /\ phantom[1][2] = 630

\* validate_configuration returned the empty report
EmptyReportReturned ==
    /\ pc # "parse_config"
    /\ error_msg = <<>>
    /\ exception.kind \notin {"MissingParameter", "KeyError", "ImageNotFound", "ValidationError"}

\* C28 (as claimed): every configuration for which validate_configuration
\* returned the empty report and whose phantom_format is k_wave once lowered
\* (the comparison of validate_phantom_format and of fill_structure) holds both
\* sound_speed_c0_m_per_s and density_rho0_kg_per_m3.
C28_KWaveAcceptedHasBothKeys ==
    (EmptyReportReturned /\ Lower(configuration["phantom_format"]) = "k_wave") =>
        /\ Has(configuration, "sound_speed_c0_m_per_s")
        /\ Has(configuration, "density_rho0_kg_per_m3")

\* the per-slice files the three calls of mat_2d_to_3d load
CompositorReads(config) ==
    UNION { mat_2d_to_3d_reads(postfix, Get(config, "depth_z", 1)) :
              postfix \in {"", "_sound_speed_map", "_density_map"} }

\* C24 (as claimed): in gen_phantom with depth_z > 1, whatever the accepted
\* output-format argument, when the loop over the slices has ended and
\* generate_final_output composes the volumes, every per-slice .mat file that
\* mat_2d_to_3d reads was written by save_all earlier in the run.
C24_CompositorReadsPersistedSlices ==
    (/\ pc = "gen_phantom"
     /\ ~IsImage(configuration)
     /\ Get(configuration, "depth_z", 1) > 1
     /\ slice_z >= Get(configuration, "depth_z", 1)
     /\ Lower(configuration["phantom_format"]) = "k_wave") =>
        CompositorReads(configuration) \subseteq files

\* the scatterers stored so far at the cell, by their position in the arrays
StoredAt(cell) ==
    {n \in 1..scatter.i : <<scatter.x[n], scatter.y[n]>> = cell}

\* C21 (as claimed): generate_scatterers stores k = round(perc_of_scatterers /
\* 100 * rows * cols) scatterers one after another into the field of zeros,
\* each at an index inside [0, cols-1] x [0, rows-1]; a cell holds the last
\* scatterer stored at it and every cell where none was stored is still zero,
\* so at most k cells are non-zero.
C21_ScatterersStoredInGrid ==
    pc = "store" =>
        /\ scatter.k = scatterer_count(configuration["perc_of_scatterers"],
                                       configuration["rows_y"], configuration["cols_x"])
        /\ Len(scatter.x) = scatter.k /\ Len(scatter.y) = scatter.k
        /\ \A n \in 1..scatter.k :
              /\ scatter.x[n] \in 0..(configuration["cols_x"] - 1)
              /\ scatter.y[n] \in 0..(configuration["rows_y"] - 1)
        /\ \A cell \in GridCells :
              phantom[cell[1]][cell[2]] =
                 IF StoredAt(cell) = {} THEN 0 ELSE scatter.scatterers[Max(StoredAt(cell))]
        /\ Cardinality({cell \in GridCells : phantom[cell[1]][cell[2]] # 0}) <= scatter.k

\* the indexes hold both ends of the axis
HoldsBothEnds(indexes, extent) ==
    0 \in Range(indexes) /\ (extent - 1) \in Range(indexes)

\* the draws are not all the same number
Spread(draws) == \E n, m \in 1..Len(draws) : draws[n] # draws[m]

NormalizedAxis(draws, indexes, extent) ==
    /\ Len(indexes) = Len(draws)
    /\ Spread(draws) =>
          /\ HoldsBothEnds(indexes, extent)
          /\ \A n \in 1..Len(draws) :
                /\ indexes[n] \in 0..(extent - 1)
                /\ draws[n] = Min(Range(draws)) => indexes[n] = 0
                /\ draws[n] = Max(Range(draws)) => indexes[n] = extent - 1
                /\ \A m \in 1..Len(draws) : draws[n] <= draws[m] => indexes[n] <= indexes[m]
    /\ ~Spread(draws) =>
          \E c \in NanAsInt : \A n \in 1..Len(draws) : indexes[n] = c

C27_ScatterersRunToCompletion ==
    /\ exception = NoException
    /\ pc # "raised"

\* the calls of fill_structure so far, as cells
Touched(w) == {<<w[n][1], w[n][2]>> : n \in 1..Len(w)}

\* C26: for every configuration for which validate_configuration returns the
\* empty report, and on every slice, every cell index the region fills of
\* generate_phantom_matrix hand to fill_structure lies in [0, cols-1] x
\* [0, rows-1]: none is negative and none is past the end of a grid.
C26_FillIndexesInsideGrids ==
    pc \in {"fill_regions", "filled"} =>
        \A n \in 1..Len(writes) :
           /\ 0 <= writes[n][1] /\ writes[n][1] <= configuration["cols_x"] - 1
           /\ 0 <= writes[n][2] /\ writes[n][2] <= configuration["rows_y"] - 1

\* a sphere that touches the far sides of the grid, on the slice of its centre
C26_Witness ==
    /\ pc = "filled"
    /\ configuration["structures"] = <<Sphere("sphere", <<Cols - 2, Rows - 2, 1>>, 1, 2)>>
    /\ slice_z = 1
    /\ writes = <<<<Cols - 3, Rows - 2, 2>>, <<Cols - 2, Rows - 3, 2>>, <<Cols - 2, Rows - 2, 2>>>>

\* the cells Circle.fill_area scans around the centre that pass its test with
\* `bound` in place of r^2
ShrunkDisc(centre, r, bound) ==
    { cell \in Range(Scan(centre[1] - r, centre[1] + r, centre[2] - r, centre[2] + r)) :
        (cell[1] - centre[1]) * (cell[1] - centre[1])
        + (cell[2] - centre[2]) * (cell[2] - centre[2]) <= bound }

\* C29: on slice z, Sphere.fill_volume scales exactly the cells Circle.fill_area
\* scales for the centre (cx, cy) when its test r^2 is replaced by
\* r^2 - (z - cz)^2, each once; on the slice z = cz the fill is that of the
\* Circle with the same centre and radius, field, maps and calls alike, and
\* on a slice with |z - cz| > r nothing is scaled.
C29_SphereSliceIsShrunkCircle ==
    [][AtRegion("sphere") =>
          LET centre == Region["center_xyz"]
              r == Region["radius"]
              dz == slice_z - centre[3]
              cells == ShrunkDisc(centre, r, r * r - dz * dz)
              circle == Circle_fill_area(Grids, <<centre[1], centre[2]>>, r,
                                         Region["scat_gain"], configuration)
          IN  /\ Touched(NewWrites) = cells
              /\ Len(NewWrites) = Cardinality(cells)
              /\ \A cell \in GridCells :
                    phantom'[cell[1]][cell[2]] =
                       IF cell \in cells
                       THEN phantom[cell[1]][cell[2]] * Region["scat_gain"]
                       ELSE phantom[cell[1]][cell[2]]
              /\ cells \subseteq Touched(circle.writes)
              /\ dz = 0 =>
                    /\ phantom' = circle.phantom
                    /\ sound_speed_map' = circle.sound_speed_map
                    /\ density_map' = circle.density_map
                    /\ writes' = circle.writes
              /\ Abs(dz) > r =>
                    /\ NewWrites = <<>>
                    /\ UNCHANGED <<phantom, sound_speed_map, density_map>>]_vars

\* a sphere of radius 1 two slices under its centre: no call of fill_structure
C29_Witness ==
    /\ pc = "filled"
    /\ configuration["structures"] = <<Sphere("sphere", <<1, 2, 1>>, 1, 2)>>
    /\ slice_z = 3
    /\ fills = <<<<"sphere", 3>>>>
    /\ writes = <<>>

\* C30: a Circle fill with centre (cx, cy) and radius r >= 1 never scales the
\* cells (cx + r, cy) and (cx, cy + r), at distance r from the centre, and
\* always scales the opposite cells (cx - r, cy) and (cx, cy - r): the cells
\* it scales are not symmetric under the reflection through the centre.
C30_CircleOmitsFarEnds ==
    [][AtRegion("circle") =>
          LET cx == Region["center_xy"][1]
              cy == Region["center_xy"][2]
              r == Region["radius"]
              scaled == Touched(NewWrites)
          IN  /\ r >= 1
              /\ <<cx + r, cy>> \notin scaled /\ <<cx, cy + r>> \notin scaled
              /\ <<cx - r, cy>> \in scaled /\ <<cx, cy - r>> \in scaled
              /\ phantom'[cx + r][cy] = phantom[cx + r][cy]
              /\ phantom'[cx][cy + r] = phantom[cx][cy + r]
              /\ phantom'[cx - r][cy] = phantom[cx - r][cy] * Region["scat_gain"]
              /\ phantom'[cx][cy - r] = phantom[cx][cy - r] * Region["scat_gain"]
              /\ {<<2 * cx - cell[1], 2 * cy - cell[2]>> : cell \in scaled} # scaled]_vars

\* the circle of test_fill_circle__only_specified_points_filled: the cells at
\* the right and at the bottom of the disc keep the 1 of the test field, the
\* ones at the left and at the top hold the gain
C30_Witness ==
    /\ pc = "filled"
    /\ configuration["structures"] = <<Circle(<<10, 8>>, 5, 7)>>
    /\ phantom[15][8] = 1 /\ phantom[10][13] = 1
    /\ phantom[5][8] = 7 /\ phantom[10][3] = 7
    /\ <<15, 8, 7>> \notin Range(writes) /\ <<5, 8, 7>> \in Range(writes)

\* the cells of the grids that no fill of the slice wrote
Untouched ==
    {cell \in (DOMAIN phantom) \X (DOMAIN phantom[0]) : cell \notin Touched(writes)}

\* C25: every slice starts from a field of zeros and maps of the baselines
\* c0 and rho0 with no fill recorded, whatever the slices before it left; and
\* while the regions of a slice are filled and once they are, a cell that no
\* fill of this slice wrote holds the baselines in the maps, and at most as
\* many of these cells as the slice has scatterers hold a non-zero amplitude.
C25_SlicesStartFromFreshGrids ==
    LET c0 == Get(configuration, "sound_speed_c0_m_per_s", 1540)
        rho0 == InThirds(Get(configuration, "density_rho0_kg_per_m3", 1000))
        k == scatterer_count(configuration["perc_of_scatterers"],
                             configuration["rows_y"], configuration["cols_x"])
    IN  /\ pc = "generate_scatterers" =>
            /\ phantom = FilledGrid(configuration["rows_y"], configuration["cols_x"], 0)
            /\ sound_speed_map = FilledGrid(configuration["rows_y"], configuration["cols_x"], c0)
            /\ density_map = FilledGrid(configuration["rows_y"], configuration["cols_x"], rho0)
            /\ writes = <<>>
        /\ pc \in {"fill_regions", "filled"} =>
            /\ \A cell \in Untouched :
                  /\ sound_speed_map[cell[1]][cell[2]] = c0
                  /\ density_map[cell[1]][cell[2]] = rho0
            /\ Cardinality({cell \in Untouched : phantom[cell[1]][cell[2]] # 0}) <= k

\* a second slice starts from fresh grids after a first slice that left
\* amplitudes in the field and changed the sound-speed map, as its files show
C25_Witness ==
    /\ pc = "generate_scatterers"
    /\ slice_z = 1
    /\ File(<<0>>, "_sound_speed_map", "mat") \in DOMAIN disk
    /\ disk[File(<<0>>, "_sound_speed_map", "mat")].data
         # Transpose(FilledGrid(configuration["rows_y"], configuration["cols_x"],
                                Get(configuration, "sound_speed_c0_m_per_s", 1540)))
    /\ \E y \in DOMAIN disk[File(<<0>>, "", "mat")].data :
         \E x \in DOMAIN disk[File(<<0>>, "", "mat")].data[y] :
            disk[File(<<0>>, "", "mat")].data[y][x] # 0
    /\ phantom = FilledGrid(configuration["rows_y"], configuration["cols_x"], 0)

\* C23: save_all with 'm' persists for a slice the transposes of its grids;
\* generate_final_output on a k_wave configuration of N > 1 slices whose
\* files are on disk writes for each array kind a volume of exactly N slices,
\* slice i of the volume being the persisted array of slice i, and leaves
\* the files of the slices as they were; with depth_z = 1 it writes nothing.
C23_VolumeSlicesArePersistedSlices ==
    [][ LET num_of_z == Get(configuration, "depth_z", 1)
            kinds == {"", "_sound_speed_map", "_density_map"}
        IN  /\ (pc = "filled" /\ "m" \in args.format) =>
                LET postfix == IF num_of_z = 1 THEN <<>> ELSE <<slice_z>>
                IN  /\ disk'[File(postfix, "", "mat")].data = Transpose(phantom)
                    /\ Lower(configuration["phantom_format"]) = "k_wave" =>
                        /\ disk'[File(postfix, "_sound_speed_map", "mat")].data
                             = Transpose(sound_speed_map)
                        /\ disk'[File(postfix, "_density_map", "mat")].data
                             = Transpose(density_map)
            /\ (pc = "final_output" /\ num_of_z = 1) =>
                (disk' = disk /\ files' = files /\ pc' = "done")
            /\ ( /\ pc = "final_output"
                 /\ num_of_z > 1
                 /\ Lower(configuration["phantom_format"]) = "k_wave"
                 /\ "m" \in args.format ) =>
                /\ pc' = "done"
                /\ \A kind \in kinds :
                     /\ File(<<>>, kind, "mat") \in DOMAIN disk'
                     /\ Len(disk'[File(<<>>, kind, "mat")].data) = num_of_z
                     /\ \A i \in 0..(num_of_z - 1) :
                          /\ disk'[File(<<>>, kind, "mat")].data[i + 1]
                               = disk[File(<<i>>, kind, "mat")].data
                          /\ disk'[File(<<i>>, kind, "mat")] = disk[File(<<i>>, kind, "mat")]
      ]_vars

\* the volumes of a phantom of MaxDepth slices were written, and the slices
\* of the field, and those of the sound-speed map, are not all the same
C23_Witness ==
    /\ pc = "done"
    /\ Get(configuration, "depth_z", 1) = MaxDepth
    /\ {File(<<>>, kind, "mat") : kind \in {"", "_sound_speed_map", "_density_map"}} \subseteq DOMAIN disk
    /\ Len(disk[File(<<>>, "", "mat")].data) = MaxDepth
    /\ disk[File(<<>>, "", "mat")].data[1] # disk[File(<<>>, "", "mat")].data[MaxDepth]
    /\ disk[File(<<>>, "_sound_speed_map", "mat")].data[1]
         # disk[File(<<>>, "_sound_speed_map", "mat")].data[2]
    /\ disk[File(<<>>, "", "mat")].data[2] = disk[File(<<1>>, "", "mat")].data

====
